---- MODULE Spec2Model ----
(***************************************************************************)
(* Model of the Weblisk real-time layer: the WebSocketManager of           *)
(* lib/monitor.ts (connection registry, message dispatcher, broadcast API) *)
(* and the route message fallback of src/weblisk.ts.                       *)
(*                                                                         *)
(* Execution model: a single-threaded event loop.  One action is one       *)
(* event-loop task together with the microtasks it queues: a socket event  *)
(* handler, an API call, or the settlement of a handler promise that was   *)
(* pending on a timer or on I/O.  `await` of a value or of an already      *)
(* settled promise continues in a microtask, i.e. inside the same action.  *)
(***************************************************************************)
EXTENDS Integers, Sequences, FiniteSets, TLC

(***************************************************************************)
(* Bounds                                                                  *)
(***************************************************************************)
MaxConns == 2       \* handshakes (connection ids are 1..MaxConns)
MaxFrames == 2      \* inbound frames over all connections
MaxCoreFrames == 1  \* inbound frames in the registry specification
MaxErrors == 1      \* transport error events
MaxRoutes == 1      \* route paths a framework registers
MaxResolveRoutes == 2  \* route paths in the resolution specification
MaxClientTime == 8     \* seconds of browser time in the client specification
MaxStarts == 2         \* calls of start() on the framework
MaxSignals == 2        \* SIGINT / SIGTERM deliveries
MaxRequests == 2       \* largest rateLimitRequests of the configuration
MaxWindow == 2         \* largest rateLimitWindowMs of the configuration
MaxNow == 4            \* largest value of Date.now() in the rate limit specification
MaxSent == 3        \* messages written to sockets before the application stops pushing

ConnIds == 1..MaxConns
SessionIds == {"s1", "s2"}
Paths == 1..MaxRoutes
ResolvePaths == 1..MaxResolveRoutes

VARIABLES
  connections,          \* WebSocketManager.connections: connectionId -> connection
  sessionConnections,   \* WebSocketManager.sessionConnections: sessionId -> set of ids
  stats,                \* WebSocketManager.stats
  components,           \* WebSocketManager.components: name -> definition
  routeMessageHandler,  \* WebSocketManager.routeMessageHandler: "none" or a framework
  routes,               \* WebliskFramework.routes of the framework: sequence of routes
  sockets,              \* per handshake: the socket's readyState and the session
  outbox,               \* per connection: envelopes written to the socket, in order
  inbox,                \* frames received so far, in arrival order (index = message id)
  pending,              \* handler invocations suspended on a pending promise
  invoked,              \* log of handler invocations
  lastOp,               \* the operation performed by the last step, with its result
  lastSends,            \* the connection.send calls made by the last step
  lifecycle             \* WebliskFramework: this.server, the shutdown handlers, the process

vars == <<connections, sessionConnections, stats, components, routeMessageHandler,
          routes, sockets, outbox, inbox, pending, invoked, lastOp, lastSends,
          lifecycle>>

(***************************************************************************)
(* Helpers on finite maps                                                  *)
(***************************************************************************)
MapSet(m, k, v) == [x \in (DOMAIN m) \cup {k} |-> IF x = k THEN v ELSE m[x]]

MapDelete(m, k) == [x \in (DOMAIN m) \ {k} |-> m[x]]

EmptyMap == [x \in {} |-> 0]

(***************************************************************************)
(* The manager's mutable state as one value, so that the methods below     *)
(* compose sequentially the way the code calls them.  `sends` collects the *)
(* connection.send calls of the running step, in call order.               *)
(***************************************************************************)
Manager ==
  [connections |-> connections, sessionConnections |-> sessionConnections,
   stats |-> stats, outbox |-> outbox, sockets |-> sockets, sends |-> <<>>]

Commit(m) ==
  /\ connections' = m.connections
  /\ sessionConnections' = m.sessionConnections
  /\ stats' = m.stats
  /\ outbox' = m.outbox
  /\ sockets' = m.sockets
  /\ lastSends' = m.sends

\* The connection object built by handleUpgrade: id and sessionId are constants of it.
Connection(m, c) == [id |-> c, sessionId |-> m.sockets[c].sessionId]

(***************************************************************************)
(* connection.send (handleUpgrade): writes to the socket only when it is   *)
(* OPEN, and counts the message then; anything else is a silent no-op.     *)
(***************************************************************************)
\* Variant: a send on a socket that is not OPEN unregisters the connection.
send_prunesDead(m, c, data) ==
  LET called == [m EXCEPT !.sends = Append(@, [conn |-> c, env |-> data])]
  IN IF m.sockets[c].readyState = "open"
       THEN [called EXCEPT !.outbox[c] = Append(@, data),
                           !.stats.messagesSent = @ + 1]
       ELSE [called EXCEPT !.connections = MapDelete(@, c)]

\* Variant: no readyState test; the write on a socket that is not OPEN throws
\* and is counted as an error.
send_unguarded(m, c, data) ==
  LET called == [m EXCEPT !.sends = Append(@, [conn |-> c, env |-> data])]
  IN IF m.sockets[c].readyState = "open"
       THEN [called EXCEPT !.outbox[c] = Append(@, data),
                           !.stats.messagesSent = @ + 1]
       ELSE [called EXCEPT !.stats.errors = @ + 1]

send(m, c, data) ==
  LET called == [m EXCEPT !.sends = Append(@, [conn |-> c, env |-> data])]
  IN IF m.sockets[c].readyState = "open"
       THEN [called EXCEPT !.outbox[c] = Append(@, data),
                           !.stats.messagesSent = @ + 1]
       ELSE called

(***************************************************************************)
(* WebSocketManager.addConnection                                          *)
(***************************************************************************)
\* Variant: starts a new set for the session at every registration.
addConnection_freshSetEachTime(m, connection) ==
  LET conns == MapSet(m.connections, connection.id, connection)
      sc1 == MapSet(m.sessionConnections, connection.sessionId, {connection.id})
  IN [m EXCEPT !.connections = conns,
               !.sessionConnections = sc1,
               !.stats.totalConnections = @ + 1,
               !.stats.activeConnections = Cardinality(DOMAIN conns)]

\* Variant: counts the active connections up instead of taking the map's size.
addConnection_countsUp(m, connection) ==
  LET conns == MapSet(m.connections, connection.id, connection)
      sc0 == IF connection.sessionId \in DOMAIN m.sessionConnections
               THEN m.sessionConnections
               ELSE MapSet(m.sessionConnections, connection.sessionId, {})
      sc1 == [sc0 EXCEPT ![connection.sessionId] = @ \cup {connection.id}]
  IN [m EXCEPT !.connections = conns,
               !.sessionConnections = sc1,
               !.stats.totalConnections = @ + 1,
               !.stats.activeConnections = @ + 1]

\* Variant: adds the connection id to the set of every session of the index.
addConnection_indexesEverywhere(m, connection) ==
  LET conns == MapSet(m.connections, connection.id, connection)
      sc0 == IF connection.sessionId \in DOMAIN m.sessionConnections
               THEN m.sessionConnections
               ELSE MapSet(m.sessionConnections, connection.sessionId, {})
      sc1 == [s \in DOMAIN sc0 |-> sc0[s] \cup {connection.id}]
  IN [m EXCEPT !.connections = conns,
               !.sessionConnections = sc1,
               !.stats.totalConnections = @ + 1,
               !.stats.activeConnections = Cardinality(DOMAIN conns)]

addConnection(m, connection) ==
  LET conns == MapSet(m.connections, connection.id, connection)
      sc0 == IF connection.sessionId \in DOMAIN m.sessionConnections
               THEN m.sessionConnections
               ELSE MapSet(m.sessionConnections, connection.sessionId, {})
      sc1 == [sc0 EXCEPT ![connection.sessionId] = @ \cup {connection.id}]
  IN [m EXCEPT !.connections = conns,
               !.sessionConnections = sc1,
               !.stats.totalConnections = @ + 1,
               !.stats.activeConnections = Cardinality(DOMAIN conns)]

\* Variant: forgets the session index when it deletes a connection.
removeConnection_keepsIndex(m, connectionId) ==
  IF connectionId \notin DOMAIN m.connections
    THEN m
    ELSE LET conns == MapDelete(m.connections, connectionId)
         IN [m EXCEPT !.connections = conns,
                      !.stats.activeConnections = Cardinality(DOMAIN conns)]

\* Variant: leaves the emptied set of a session in the index.
removeConnection_keepsEmptySet(m, connectionId) ==
  IF connectionId \notin DOMAIN m.connections
    THEN m
    ELSE LET conns == MapDelete(m.connections, connectionId)
             sid == m.connections[connectionId].sessionId
         IN [m EXCEPT !.connections = conns,
                      !.sessionConnections[sid] = @ \ {connectionId},
                      !.stats.activeConnections = Cardinality(DOMAIN conns)]

\* Variant: counts the connection down before it looks the id up.
removeConnection_countsDown(m, connectionId) ==
  LET counted == [m EXCEPT !.stats.activeConnections = @ - 1]
  IN IF connectionId \notin DOMAIN m.connections
       THEN counted
       ELSE LET conns == MapDelete(m.connections, connectionId)
                sid == m.connections[connectionId].sessionId
                left == m.sessionConnections[sid] \ {connectionId}
            IN [counted EXCEPT
                  !.connections = conns,
                  !.sessionConnections =
                     IF left = {} THEN MapDelete(m.sessionConnections, sid)
                     ELSE [m.sessionConnections EXCEPT ![sid] = left]]

(***************************************************************************)
(* WebSocketManager.removeConnection                                       *)
(***************************************************************************)
\* Variant: a removed connection is taken out of the total as well.
removeConnection_uncounts(m, connectionId) ==
  IF connectionId \notin DOMAIN m.connections
    THEN m
    ELSE
      LET connection == m.connections[connectionId]
          conns == MapDelete(m.connections, connectionId)
          sid == connection.sessionId
          left == m.sessionConnections[sid] \ {connectionId}
      IN [m EXCEPT !.connections = conns,
                   !.sessionConnections =
                      IF left = {} THEN MapDelete(m.sessionConnections, sid)
                      ELSE [m.sessionConnections EXCEPT ![sid] = left],
                   !.stats.totalConnections = @ - 1,
                   !.stats.activeConnections = Cardinality(DOMAIN conns)]

removeConnection(m, connectionId) ==
  IF connectionId \notin DOMAIN m.connections
    THEN m
    ELSE
      LET connection == m.connections[connectionId]
          conns == MapDelete(m.connections, connectionId)
          sid == connection.sessionId
          sc == IF sid \in DOMAIN m.sessionConnections
                  THEN LET left == m.sessionConnections[sid] \ {connectionId}
                       IN IF left = {}
                            THEN MapDelete(m.sessionConnections, sid)
                            ELSE [m.sessionConnections EXCEPT ![sid] = left]
                  ELSE m.sessionConnections
      IN [m EXCEPT !.connections = conns,
                   !.sessionConnections = sc,
                   !.stats.activeConnections = Cardinality(DOMAIN conns)]

(***************************************************************************)
(* Payloads and security.sanitizeInput.  A payload is a JSON value: a      *)
(* string (a sequence of characters), a number, or an array of payloads.   *)
(* Strings are sequences of one-character strings so that the entity       *)
(* encoding is computed, character by character (the double quote, the     *)
(* backslash and the backquote are encoded the same way and are not in the *)
(* alphabet).  The keyword rewrites                                        *)
(* (javascript:, data:, on...=) and the 10000 character cut need words     *)
(* that the alphabet below cannot spell; on it they change nothing.        *)
(***************************************************************************)
Str(chars) == [t |-> "str", chars |-> chars, items |-> <<>>, n |-> 0]
Num(n) == [t |-> "num", chars |-> <<>>, items |-> <<>>, n |-> n]
Arr(items) == [t |-> "arr", chars |-> <<>>, items |-> items, n |-> 0]
Undefined == [t |-> "undefined", chars |-> <<>>, items |-> <<>>, n |-> 0]

RECURSIVE Concat(_)
Concat(seqs) == IF seqs = <<>> THEN <<>> ELSE Head(seqs) \o Concat(Tail(seqs))

EncodeChar(ch) ==
  CASE ch = "&" -> <<"&", "a", "m", "p", ";">>
    [] ch = "<" -> <<"&", "l", "t", ";">>
    [] ch = ">" -> <<"&", "g", "t", ";">>
    [] ch = "'" -> <<"&", "#", "x", "2", "7", ";">>
    [] ch = "/" -> <<"&", "#", "x", "2", "F", ";">>
    [] OTHER -> <<ch>>

RECURSIVE sanitizeInput(_)
sanitizeInput(input) ==
  CASE input.t = "str" ->
         Str(Concat([i \in 1..Len(input.chars) |-> EncodeChar(input.chars[i])]))
    [] input.t = "arr" ->
         Arr([i \in 1..Len(input.items) |-> sanitizeInput(input.items[i])])
    [] OTHER -> input

Payloads == {Str(<<"<", "b">>), Arr(<<Str(<<"&">>), Num(7)>>)}

(***************************************************************************)
(* Inbound frames: text that is not JSON, the JSON text `null`, a JSON     *)
(* object with no fields, and server-event messages.                       *)
(***************************************************************************)
ComponentNames == {"chat"}             \* names an application registers
\* ComponentDefinition: with or without a server function
ComponentDefinitions == {[server |-> TRUE], [server |-> FALSE]}

\* The event handlers the server function of a component puts in
\* context.events when it runs.
ComponentEvents == {"save"}

\* The names the framework's own pages use as message scope, which an
\* application also registers components under (app.component("app", ...)).
ScopeNames == {"route", "app"}

FrameworkEvents == {"ping"}            \* buildEvents: frameworkEvents
GlobalEvents == {}                     \* WebliskRoute.appConfig.globalEvents
UserEvents == {"save"}                 \* events a route configuration may define
ObjectPrototypeKeys == {"toString"}    \* a key every object literal inherits
MessageEvents == {"ping", "save", "toString", "nope"}

Message(component, event, payload) ==
  [kind |-> "msg", component |-> component, event |-> event, payload |-> payload]

\* Route-scoped messages for every event name, and messages for event "save",
\* route-scoped and component-scoped, with every payload.
Messages ==
  {Message("route", e, Str(<<"<", "b">>)) : e \in MessageEvents}
    \cup {Message(c, "save", p) : c \in {"route"} \cup ComponentNames, p \in Payloads}

EmptyObject ==
  Message("undefined", "undefined", Undefined)

Frames == {[kind |-> "invalid"], [kind |-> "null"], EmptyObject} \cup Messages

\* The frames of the resolution specification: every scope and component
\* name with an event that components and routes may define and one that
\* nothing defines.
ResolveComponentNames == ComponentNames \cup {"app"}

ResolveFrames ==
  {Message(c, e, Str(<<"b">>)) :
     c \in ScopeNames \cup ResolveComponentNames, e \in {"save", "nope"}}

\* The frames of the fallback specification: route-scoped messages for an
\* event that routes may define, one that nothing defines, and one whose name
\* every object inherits.
FallbackFrames ==
  {Message("route", e, Str(<<"b">>)) : e \in {"save", "nope"} \cup ObjectPrototypeKeys}

\* The frames of the instances specification: route-scoped messages for an
\* event that routes may define and for one of the framework itself.
InstanceFrames == {Message("route", e, Str(<<"b">>)) : e \in {"save", "ping"}}

\* The frames of the registry specification: a malformed one and a message.
CoreFrames == {[kind |-> "invalid"], Message("chat", "save", Str(<<"<", "b">>))}

(***************************************************************************)
(* Outbound envelopes (timestamps left out).  `mid` is not on the wire: it *)
(* names the inbound message (its index in inbox) a reply answers.         *)
(***************************************************************************)
ConnectionEstablished(sessionId, connectionId) ==
  [type |-> "connection-established", sessionId |-> sessionId,
   connectionId |-> connectionId]

EventResultOk(mid, event, result) ==
  [type |-> "event-result", event |-> event, success |-> TRUE,
   result |-> result, error |-> <<>>, mid |-> mid]

EventResultFail(mid, event, error) ==
  [type |-> "event-result", event |-> event, success |-> FALSE,
   result |-> "", error |-> error, mid |-> mid]

ErrorEnvelope(mid) ==
  [type |-> "error", error |-> <<"Invalid message format">>, mid |-> mid]

\* A message text is a sequence of pieces, <<>> being the empty string.
\* `prefix${name}` of a template literal: the prefix, then the interpolated name.
Template(prefix, name) == <<prefix, name>>

\* Values a handler may throw: new Error("boom"), and the string "oops".
\* `message` is the value's message property, `string` is String(value).
ThrownValues == {[isError |-> TRUE, message |-> <<"boom">>, string |-> <<"Error: ", "boom">>],
                 [isError |-> FALSE, message |-> <<>>, string |-> <<"oops">>]}

\* error instanceof Error ? error.message : String(error)
errorMessage(error) == IF error.isError THEN error.message ELSE error.string

NoRouteError(eventName) ==
  [isError |-> TRUE,
   message |-> Template("No route found with event handler for: ", eventName),
   string |-> <<"Error: ", "No route found with event handler for: ", eventName>>]

(***************************************************************************)
(* WebliskRoute.buildEvents / hasEvent / handleEvent.  A route is          *)
(* [path, events], events being the names its configuration defines.       *)
(* buildEvents merges framework, application and route events into an      *)
(* object literal; `eventName in events` is also true of the names the     *)
(* literal inherits from Object.prototype.                                 *)
(***************************************************************************)
buildEvents(route) == FrameworkEvents \cup GlobalEvents \cup route.events

hasEvent(route, eventName) ==
  eventName \in buildEvents(route) \cup ObjectPrototypeKeys

\* Which function events[eventName] is: the later spread wins.
handlerOf(route, eventName) ==
  CASE eventName \in route.events -> "user"
    [] eventName \in GlobalEvents -> "app"
    [] eventName \in FrameworkEvents -> "framework"
    [] eventName \in ObjectPrototypeKeys -> "inherited"
    [] OTHER -> "none"

(***************************************************************************)
(* WebliskFramework.handleWebSocketRouteMessage: the first route, in       *)
(* registration order, that has the event; 0 when none has it.             *)
(***************************************************************************)
FirstRouteWithEvent(rs, eventName) ==
  LET hits == {i \in 1..Len(rs) : hasEvent(rs[i], eventName)}
  IN IF hits = {} THEN 0 ELSE CHOOSE i \in hits : \A j \in hits : i <= j

(***************************************************************************)
(* WebSocketManager.handleMessage up to its first await: which function,   *)
(* if any, the message makes the dispatcher call, and with which payload.  *)
(*   via = "component": component.server(context), context.data being      *)
(*                      message.payload                                    *)
(*   via = "route":     routeHandler(sanitizedMessage, connection), which  *)
(*                      calls the handler of route number `route`, or      *)
(*                      throws when route = 0                              *)
(*   via = "none":      nothing to call                                    *)
(***************************************************************************)
Resolve(message) ==
  LET sanitizedPayload == sanitizeInput(message.payload)
      isComponentEvent ==
        /\ message.component \notin {"undefined", "route", "app"}
        /\ message.component \in DOMAIN components
        /\ components[message.component].server
  IN IF isComponentEvent
       THEN [via |-> "component", name |-> message.component, route |-> 0,
             handler |-> "user", payload |-> message.payload]
       ELSE IF routeMessageHandler # "none"
         THEN LET rs == routes[routeMessageHandler]
                  i == FirstRouteWithEvent(rs, message.event)
              IN [via |-> "route", name |-> routeMessageHandler, route |-> i,
                  handler |-> IF i = 0 THEN "none"
                              ELSE handlerOf(rs[i], message.event),
                  payload |-> sanitizedPayload]
         ELSE [via |-> "none", name |-> "", route |-> 0, handler |-> "none",
               payload |-> sanitizedPayload]

\* What a function of the framework itself returns when called.
BuiltinResult(handler) ==
  CASE handler = "framework" -> "pong"
    [] handler = "inherited" -> "[object Undefined]"
    [] OTHER -> ""

\* What calling the resolved function may do: a function of the application
\* may return, throw, or return a promise that is still pending.
Outcomes(plan, message) ==
  CASE plan.via = "none" -> {[kind |-> "unhandled"]}
    [] plan.via = "route" /\ plan.route = 0 ->
         {[kind |-> "throw", error |-> NoRouteError(message.event)]}
    [] plan.handler \in {"framework", "inherited"} ->
         {[kind |-> "return", result |-> BuiltinResult(plan.handler)]}
    [] OTHER ->
         {[kind |-> "return", result |-> "ok"], [kind |-> "pending"]}
           \cup {[kind |-> "throw", error |-> e] : e \in ThrownValues}

(***************************************************************************)
(* The calls a dispatch makes, for the log: the component's server         *)
(* function, the route message fallback, and the event handler the         *)
(* fallback finds.                                                         *)
(***************************************************************************)
\* Variant: after the component's server function the dispatcher goes on to
\* the route message fallback.
Calls_fallsThrough(mid, plan) ==
  CASE plan.via = "component" ->
         {[mid |-> mid, fn |-> "component.server", target |-> plan.name,
           route |-> 0, payload |-> plan.payload],
          [mid |-> mid, fn |-> "routeMessageHandler", target |-> plan.name,
           route |-> 0, payload |-> plan.payload]}
    [] plan.via = "route" ->
         {[mid |-> mid, fn |-> "routeMessageHandler", target |-> plan.name,
           route |-> 0, payload |-> plan.payload]}
           \cup (IF plan.route = 0 THEN {}
                 ELSE {[mid |-> mid, fn |-> "route.handleEvent", target |-> plan.handler,
                        route |-> plan.route, payload |-> plan.payload]})
    [] OTHER -> {}

Calls(mid, plan) ==
  CASE plan.via = "component" ->
         {[mid |-> mid, fn |-> "component.server", target |-> plan.name,
           route |-> 0, payload |-> plan.payload]}
    [] plan.via = "route" ->
         {[mid |-> mid, fn |-> "routeMessageHandler", target |-> plan.name,
           route |-> 0, payload |-> plan.payload]}
           \cup (IF plan.route = 0 THEN {}
                 ELSE {[mid |-> mid, fn |-> "route.handleEvent", target |-> plan.handler,
                        route |-> plan.route, payload |-> plan.payload]})
    [] OTHER -> {}

\* Variant: a failure of the called function leaves handleMessage and lands
\* in the catch block of onmessage.
Reply_propagates(m, c, mid, message, outcome) ==
  CASE outcome.kind = "return" ->
         send(m, c, EventResultOk(mid, message.event, outcome.result))
    [] outcome.kind = "unhandled" ->
         send(m, c, EventResultFail(mid, message.event,
                      Template("No handler found for component: ", message.component)))
    [] outcome.kind = "throw" ->
         send([m EXCEPT !.stats.errors = @ + 1], c, ErrorEnvelope(mid))

\* Variant: the result goes to every registered connection of the session of
\* the originating connection.
Reply_toSession(m, c, mid, message, outcome) ==
  LET envelope ==
        CASE outcome.kind = "return" ->
               EventResultOk(mid, message.event, outcome.result)
          [] outcome.kind = "unhandled" ->
               EventResultFail(mid, message.event,
                 Template("No handler found for component: ", message.component))
          [] outcome.kind = "throw" ->
               EventResultFail(mid, message.event, errorMessage(outcome.error))
      RECURSIVE Each(_, _)
      Each(mm, ids) ==
        IF ids = {} THEN mm
        ELSE LET id == CHOOSE x \in ids : \A y \in ids : x <= y
             IN Each(send(mm, id, envelope), ids \ {id})
  IN Each(m, {d \in DOMAIN m.connections :
                 m.connections[d].sessionId = m.sockets[c].sessionId} \cup {c})

\* Variant: one dispatch at a time for the whole manager; a result is held
\* back while a handler of another connection is suspended.
Reply_waitsForPending(m, c, mid, message, outcome) ==
  IF \E p \in pending : p.conn # c THEN m
  ELSE CASE outcome.kind = "return" ->
              send(m, c, EventResultOk(mid, message.event, outcome.result))
         [] outcome.kind = "unhandled" ->
              send(m, c, EventResultFail(mid, message.event,
                           Template("No handler found for component: ", message.component)))
         [] outcome.kind = "throw" ->
              send(m, c, EventResultFail(mid, message.event, errorMessage(outcome.error)))

\* The rest of handleMessage once the awaited call has settled.
Reply(m, c, mid, message, outcome) ==
  CASE outcome.kind = "return" ->
         send(m, c, EventResultOk(mid, message.event, outcome.result))
    [] outcome.kind = "unhandled" ->
         send(m, c, EventResultFail(mid, message.event,
                      Template("No handler found for component: ", message.component)))
    [] outcome.kind = "throw" ->
         send(m, c, EventResultFail(mid, message.event, errorMessage(outcome.error)))

\* The last step: the operation, the connection it ran on (0: none), its
\* argument and what it returned (for a dispatch: the message id and what the
\* called function did).
Op(op, conn, arg, ret) == [op |-> op, conn |-> conn, arg |-> arg, ret |-> ret]

SetReadyState(m, c, state) == [m EXCEPT !.sockets[c].readyState = state]

Live == {"connecting", "open", "closing"}

(***************************************************************************)
(* Initial state: the module-level WebSocketManager singleton, no          *)
(* framework constructed, no handshake made.                               *)
(***************************************************************************)
Init ==
  /\ connections = EmptyMap
  /\ sessionConnections = EmptyMap
  /\ stats = [totalConnections |-> 0, activeConnections |-> 0,
              messagesReceived |-> 0, messagesSent |-> 0, errors |-> 0]
  /\ components = EmptyMap
  /\ routeMessageHandler = "none"
  /\ routes = EmptyMap
  /\ sockets = [c \in ConnIds |-> [readyState |-> "absent", sessionId |-> "none"]]
  /\ outbox = [c \in ConnIds |-> <<>>]
  /\ inbox = <<>>
  /\ pending = {}
  /\ invoked = {}
  /\ lastOp = Op("init", 0, "", "")
  /\ lastSends = <<>>
  /\ lifecycle = [server |-> FALSE, shuttingDown |-> <<>>, stopping |-> 0,
                  exited |-> FALSE, signals |-> 0, stopsBySignal |-> 0,
                  closeAllsBySignal |-> 0]

(***************************************************************************)
(* Application set-up: new WebliskFramework(), framework.route(),          *)
(* framework.component().                                                  *)
(***************************************************************************)
Frameworks == {"A"}
Instances == {"A", "B"}     \* two instances in one process

\* The application constructs its framework and registers its routes and
\* components before it starts serving.
Configuring == \A c \in ConnIds : sockets[c].readyState = "absent"

\* Variant: the slot keeps the handler it already holds.
setRouteMessageHandler_keepsFirst(handler) ==
  IF routeMessageHandler = "none" THEN handler ELSE routeMessageHandler

\* WebSocketManager.setRouteMessageHandler: the new value of the one slot.
setRouteMessageHandler(handler) == handler

\* new WebliskFramework(): an instance with no routes, whose bound
\* handleWebSocketRouteMessage goes into the manager's slot.
Construct(f) ==
  /\ f \notin DOMAIN routes
  /\ routes' = MapSet(routes, f, <<>>)
  /\ routeMessageHandler' = setRouteMessageHandler(f)
  /\ lastOp' = Op("new", 0, f, "")
  /\ lastSends' = <<>>
  /\ UNCHANGED <<connections, sessionConnections, stats, components, sockets,
                 outbox, inbox, pending, invoked, lifecycle>>

NewFramework(f) == Configuring /\ Construct(f)

\* Map.set(path, route): a new path is appended, a known path keeps its place.
RoutesSet(rs, route) ==
  IF \E i \in 1..Len(rs) : rs[i].path = route.path
    THEN [i \in 1..Len(rs) |-> IF rs[i].path = route.path THEN route ELSE rs[i]]
    ELSE Append(rs, route)

AddRoute(f, path, events) ==
  /\ Configuring
  /\ f \in DOMAIN routes
  /\ routes' = [routes EXCEPT ![f] = RoutesSet(@, [path |-> path, events |-> events])]
  /\ routes' # routes
  /\ lastOp' = Op("route", 0, path, "")
  /\ lastSends' = <<>>
  /\ UNCHANGED <<connections, sessionConnections, stats, components,
                 routeMessageHandler, sockets, outbox, inbox, pending, invoked, lifecycle>>

registerComponent(name, definition) ==
  /\ Configuring
  /\ components' = MapSet(components, name, definition)
  /\ components' # components
  /\ lastOp' = Op("component", 0, name, "")
  /\ lastSends' = <<>>
  /\ UNCHANGED <<connections, sessionConnections, stats, routeMessageHandler,
                 routes, sockets, outbox, inbox, pending, invoked, lifecycle>>

(***************************************************************************)
(* WebSocketManager.handleUpgrade: a new socket in state CONNECTING, with  *)
(* a connection id no earlier handshake had (crypto.randomUUID) and the    *)
(* session id the caller resolved.  Nothing is registered yet.             *)
(***************************************************************************)
\* Variant: hands out the id of a closed connection again.
FreshIds_reusesClosed ==
  {c \in ConnIds : sockets[c].readyState \in {"absent", "closed"}}

FreshIds == {c \in ConnIds : sockets[c].readyState = "absent"}

handleUpgrade(sessionId) ==
  /\ FreshIds # {}
  /\ LET c == CHOOSE x \in FreshIds : \A y \in FreshIds : x <= y
     IN /\ sockets' = [sockets EXCEPT ![c] = [readyState |-> "connecting",
                                               sessionId |-> sessionId]]
        /\ lastOp' = Op("handleUpgrade", c, sessionId, "")
  /\ lastSends' = <<>>
  /\ UNCHANGED <<connections, sessionConnections, stats, components,
                 routeMessageHandler, routes, outbox, inbox, pending, invoked, lifecycle>>

(***************************************************************************)
(* socket.onopen                                                           *)
(***************************************************************************)
\* Variant: registers the connection and sends no welcome.
onopen_noWelcome(m, c) == addConnection(m, Connection(m, c))

onopen(m, c) ==
  LET connection == Connection(m, c)
      added == addConnection(m, connection)
  IN send(added, c, ConnectionEstablished(connection.sessionId, connection.id))

OnOpen(c) ==
  /\ sockets[c].readyState = "connecting"
  /\ Commit(onopen(SetReadyState(Manager, c, "open"), c))
  /\ lastOp' = Op("onopen", c, "", "")
  /\ UNCHANGED <<components, routeMessageHandler, routes, inbox, pending, invoked, lifecycle>>

(***************************************************************************)
(* socket.onmessage with WebSocketManager.handleMessage.  A frame can      *)
(* arrive while the socket is OPEN, and while it is CLOSING (the peer sent *)
(* it before it saw the server's close frame).                             *)
(*   - text that is not JSON: JSON.parse throws                            *)
(*   - JSON null: reading message.payload throws inside handleMessage, and *)
(*     its catch block throws again reading message.event                  *)
(*   both end in onmessage's catch block.                                  *)
(***************************************************************************)
\* Variant: gives up the connection after a frame it cannot read.
onmessageCatch_unregisters(m, c, mid) ==
  removeConnection(send([m EXCEPT !.stats.errors = @ + 1], c, ErrorEnvelope(mid)), c)

\* Variant: reports the unreadable frame as the failure of an event.
onmessageCatch_asEventResult(m, c, mid) ==
  send([m EXCEPT !.stats.errors = @ + 1], c,
       EventResultFail(mid, "undefined", <<"Invalid message format">>))

\* Variant: the catch block counts and logs the failure and sends nothing.
onmessageCatch_silent(m, c, mid) == [m EXCEPT !.stats.errors = @ + 1]

onmessageCatch(m, c, mid) ==
  send([m EXCEPT !.stats.errors = @ + 1], c, ErrorEnvelope(mid))

OnMessage(c, frame) ==
  /\ sockets[c].readyState \in {"open", "closing"}
  /\ stats.messagesReceived < MaxFrames
  /\ LET mid == Len(inbox) + 1
         m == [Manager EXCEPT !.stats.messagesReceived = @ + 1]
     IN /\ inbox' = Append(inbox, [conn |-> c, frame |-> frame])
        /\ IF frame.kind \in {"invalid", "null"}
             THEN /\ Commit(onmessageCatch(m, c, mid))
                  /\ lastOp' = Op("onmessage", c, mid, [kind |-> "caught"])
                  /\ UNCHANGED <<pending, invoked>>
             ELSE LET plan == Resolve(frame)
                  IN \E outcome \in Outcomes(plan, frame) :
                       /\ invoked' = invoked \cup Calls(mid, plan)
                       /\ lastOp' = Op("onmessage", c, mid, outcome)
                       /\ IF outcome.kind = "pending"
                            THEN /\ pending' = pending \cup
                                       {[mid |-> mid, conn |-> c, message |-> frame]}
                                 /\ Commit(m)
                            ELSE /\ pending' = pending
                                 /\ Commit(Reply(m, c, mid, frame, outcome))
  /\ UNCHANGED <<components, routeMessageHandler, routes, lifecycle>>

(***************************************************************************)
(* The promise a handler returned settles: handleMessage resumes after its *)
(* await and sends the result, or lands in its catch block.                *)
(***************************************************************************)
Settlements ==
  {[kind |-> "return", result |-> "ok"]}
    \cup {[kind |-> "throw", error |-> e] : e \in ThrownValues}

Settle(p, outcome) ==
  /\ p \in pending
  /\ pending' = pending \ {p}
  /\ Commit(Reply(Manager, p.conn, p.mid, p.message, outcome))
  /\ lastOp' = Op("settle", p.conn, p.mid, outcome)
  /\ UNCHANGED <<components, routeMessageHandler, routes, inbox, invoked, lifecycle>>

(***************************************************************************)
(* socket.onclose, for any close code, and socket.onerror.  The close      *)
(* event also ends a handshake that never opened.                          *)
(***************************************************************************)
CloseCodes == {1000, 1006}

\* Variant: unregisters on a normal closure only.
onclose_normalOnly(m, c, code) == IF code = 1000 THEN removeConnection(m, c) ELSE m

onclose(m, c, code) == removeConnection(m, c)

OnClose(c, code) ==
  /\ sockets[c].readyState \in Live
  /\ Commit(onclose(SetReadyState(Manager, c, "closed"), c, code))
  /\ lastOp' = Op("onclose", c, code, "")
  /\ UNCHANGED <<components, routeMessageHandler, routes, inbox, pending, invoked, lifecycle>>

\* Variant: the error event unregisters the connection.
onerror_unregisters(m, c) ==
  removeConnection([m EXCEPT !.stats.errors = @ + 1], c)

\* socket.onerror: counts the error and logs it.
onerror(m, c) == [m EXCEPT !.stats.errors = @ + 1]

OnError(c) ==
  /\ sockets[c].readyState \in Live
  /\ stats.errors < MaxErrors
  /\ Commit(onerror(Manager, c))
  /\ lastOp' = Op("onerror", c, "", "")
  /\ UNCHANGED <<components, routeMessageHandler, routes, inbox, pending, invoked, lifecycle>>

(***************************************************************************)
(* Broadcast API.  Application messages are arbitrary JSON objects.        *)
(***************************************************************************)
AppMessages == {[type |-> "x"]}

Min(S) == CHOOSE x \in S : \A y \in S : x <= y

\* connection.send(message) for each connection of ids, in ascending id order
\* (sends to different sockets commute).
RECURSIVE SendEach(_, _, _)
SendEach(m, ids, message) ==
  IF ids = {} THEN m
  ELSE SendEach(send(m, Min(ids), message), ids \ {Min(ids)}, message)

(***************************************************************************)
(* WebSocketManager.broadcastToSession: the manager after the call, and    *)
(* the returned count.                                                     *)
(***************************************************************************)
\* Variant: sends to every registered connection, whatever its session.
broadcastToSession_everySession(m, sessionId, message) ==
  [m |-> SendEach(m, DOMAIN m.connections, message),
   ret |-> Cardinality(DOMAIN m.connections)]

broadcastToSession(m, sessionId, message) ==
  IF sessionId \notin DOMAIN m.sessionConnections
    THEN [m |-> m, ret |-> 0]
    ELSE LET connectionIds == m.sessionConnections[sessionId]
             found == {id \in connectionIds : id \in DOMAIN m.connections}
         IN [m |-> SendEach(m, found, message), ret |-> Cardinality(found)]

BroadcastToSession(sessionId, message) ==
  /\ stats.messagesSent < MaxSent
  /\ LET r == broadcastToSession(Manager, sessionId, message)
     IN /\ Commit(r.m)
        /\ lastOp' = Op("broadcastToSession", 0,
                        [sessionId |-> sessionId, message |-> message], r.ret)
  /\ UNCHANGED <<components, routeMessageHandler, routes, inbox, pending, invoked, lifecycle>>

(***************************************************************************)
(* WebSocketManager.sendToConnection                                       *)
(***************************************************************************)
\* Variant: reports true also when the id is not registered.
sendToConnection_reportsTrue(m, connectionId, message) ==
  IF connectionId \notin DOMAIN m.connections
    THEN [m |-> m, ret |-> TRUE]
    ELSE [m |-> send(m, connectionId, message), ret |-> TRUE]

sendToConnection(m, connectionId, message) ==
  IF connectionId \notin DOMAIN m.connections
    THEN [m |-> m, ret |-> FALSE]
    ELSE [m |-> send(m, connectionId, message), ret |-> TRUE]

SendToConnection(c, message) ==
  /\ stats.messagesSent < MaxSent
  /\ LET r == sendToConnection(Manager, c, message)
     IN /\ Commit(r.m)
        /\ lastOp' = Op("sendToConnection", c, message, r.ret)
  /\ UNCHANGED <<components, routeMessageHandler, routes, inbox, pending, invoked, lifecycle>>

(***************************************************************************)
(* WebSocketManager.getConnectionsBySession: the connections of a session  *)
(* as a list ([] when the session is not in the index).  The code lists    *)
(* them in the order of registration, which the contract leaves open; the  *)
(* list here is in ascending id order.                                     *)
(***************************************************************************)
RECURSIVE SetToSeq(_)
SetToSeq(S) == IF S = {} THEN <<>> ELSE <<Min(S)>> \o SetToSeq(S \ {Min(S)})

getConnectionsBySession(m, sessionId) ==
  IF sessionId \notin DOMAIN m.sessionConnections
    THEN <<>>
    ELSE LET connectionIds == m.sessionConnections[sessionId]
             found == SetToSeq({id \in connectionIds : id \in DOMAIN m.connections})
         IN [i \in 1..Len(found) |-> m.connections[found[i]]]

(***************************************************************************)
(* WebSocketManager.broadcast with BroadcastOptions.  An option that is    *)
(* not given is undefined; the code tests each option for truthiness, so   *)
(* for a session id the empty string stands for "not given" (both are      *)
(* falsy), while a list of connection ids is truthy even when empty.       *)
(***************************************************************************)
NoIds == [defined |-> FALSE, ids |-> {}]
Ids(S) == [defined |-> TRUE, ids |-> S]

\* An optional string of the options: not given, or given with a value,
\* which callers may make the empty string.  `if (x && ...)` takes a given
\* empty string for a filter that is not given.
NoSession == [defined |-> FALSE, value |-> ""]
Session(sid) == [defined |-> TRUE, value |-> sid]
Truthy(x) == x.defined /\ x.value # ""

NoOptions ==
  [includeSessionId |-> NoSession, excludeSessionId |-> NoSession,
   includeConnectionIds |-> NoIds, excludeConnectionIds |-> NoIds]

BroadcastOptions ==
  {NoOptions}
    \cup {[NoOptions EXCEPT !.excludeSessionId = Session(sid)] : sid \in SessionIds \cup {""}}
    \cup {[NoOptions EXCEPT !.includeSessionId = Session(sid)] : sid \in SessionIds \cup {""}}
    \cup {[NoOptions EXCEPT !.includeConnectionIds = Ids(S)] : S \in {{}, {1}}}
    \cup {[NoOptions EXCEPT !.excludeConnectionIds = Ids({1})]}
    \cup {[NoOptions EXCEPT !.includeSessionId = Session("s1"),
                            !.excludeConnectionIds = Ids({1})]}

\* Variant: does not look at excludeSessionId.
shouldSendToConnection_ignoresExclude(connection, options) ==
  /\ ~(Truthy(options.includeSessionId)
         /\ connection.sessionId # options.includeSessionId.value)
  /\ ~(options.includeConnectionIds.defined
         /\ connection.id \notin options.includeConnectionIds.ids)
  /\ ~(options.excludeConnectionIds.defined
         /\ connection.id \in options.excludeConnectionIds.ids)

shouldSendToConnection(connection, options) ==
  /\ ~(Truthy(options.includeSessionId)
         /\ connection.sessionId # options.includeSessionId.value)
  /\ ~(Truthy(options.excludeSessionId)
         /\ connection.sessionId = options.excludeSessionId.value)
  /\ ~(options.includeConnectionIds.defined
         /\ connection.id \notin options.includeConnectionIds.ids)
  /\ ~(options.excludeConnectionIds.defined
         /\ connection.id \in options.excludeConnectionIds.ids)

broadcast(m, message, options) ==
  LET chosen == {id \in DOMAIN m.connections :
                   shouldSendToConnection(m.connections[id], options)}
  IN [m |-> SendEach(m, chosen, message), ret |-> Cardinality(chosen)]

Broadcast(message, options) ==
  /\ stats.messagesSent < MaxSent
  /\ LET r == broadcast(Manager, message, options)
     IN /\ Commit(r.m)
        /\ lastOp' = Op("broadcast", 0,
                        [message |-> message, options |-> options], r.ret)
  /\ UNCHANGED <<components, routeMessageHandler, routes, inbox, pending, invoked, lifecycle>>

(***************************************************************************)
(* WebSocketManager.getConnectionInfo                                      *)
(***************************************************************************)
getConnectionInfo(m) ==
  [totalSessions |-> Cardinality(DOMAIN m.sessionConnections),
   connectionsPerSession |->
     [s \in DOMAIN m.sessionConnections |-> Cardinality(m.sessionConnections[s])],
   connectionsBySession |->
     [s \in DOMAIN m.sessionConnections |-> m.sessionConnections[s]]]

(***************************************************************************)
(* Server-side closing: socket.close() starts the closing handshake, the   *)
(* socket is CLOSING until its close event; close() on a socket that is    *)
(* already CLOSING or CLOSED does nothing.                                 *)
(***************************************************************************)
socketClose(m, c) ==
  IF m.sockets[c].readyState \in {"connecting", "open"}
    THEN SetReadyState(m, c, "closing")
    ELSE m

RECURSIVE CloseEach(_, _)
CloseEach(m, ids) ==
  IF ids = {} THEN m
  ELSE CloseEach(socketClose(m, Min(ids)), ids \ {Min(ids)})

closeConnection(m, connectionId) ==
  IF connectionId \notin DOMAIN m.connections
    THEN [m |-> m, ret |-> FALSE]
    ELSE [m |-> socketClose(m, connectionId), ret |-> TRUE]

CloseConnection(c) ==
  /\ LET r == closeConnection(Manager, c)
     IN /\ Commit(r.m)
        /\ lastOp' = Op("closeConnection", c, "", r.ret)
  /\ UNCHANGED <<components, routeMessageHandler, routes, inbox, pending, invoked, lifecycle>>

\* Variant: a mass-unregister; the call empties the registry itself.
closeAllConnections_unregisters(m) ==
  [m |-> [CloseEach(m, DOMAIN m.connections)
            EXCEPT !.connections = EmptyMap, !.sessionConnections = EmptyMap,
                   !.stats.activeConnections = 0],
   ret |-> Cardinality(DOMAIN m.connections)]

closeAllConnections(m) ==
  [m |-> CloseEach(m, DOMAIN m.connections),
   ret |-> Cardinality(DOMAIN m.connections)]

CloseAllConnections ==
  /\ LET r == closeAllConnections(Manager)
     IN /\ Commit(r.m)
        /\ lastOp' = Op("closeAllConnections", 0, "", r.ret)
  /\ UNCHANGED <<components, routeMessageHandler, routes, inbox, pending, invoked, lifecycle>>

(***************************************************************************)
(* WebSocketManager.cleanup: removes the registered connections whose      *)
(* socket is CLOSED.                                                       *)
(***************************************************************************)
RECURSIVE RemoveEach(_, _)
RemoveEach(m, ids) ==
  IF ids = {} THEN m
  ELSE RemoveEach(removeConnection(m, Min(ids)), ids \ {Min(ids)})

cleanup(m) ==
  LET toRemove == {id \in DOMAIN m.connections : m.sockets[id].readyState = "closed"}
  IN [m |-> RemoveEach(m, toRemove), ret |-> Cardinality(toRemove)]

Cleanup ==
  /\ LET r == cleanup(Manager)
     IN /\ Commit(r.m)
        /\ lastOp' = Op("cleanup", 0, "", r.ret)
  /\ UNCHANGED <<components, routeMessageHandler, routes, inbox, pending, invoked, lifecycle>>

(***************************************************************************)
(* Session identity: security.generateSecureSessionId / isValidSessionId    *)
(* and the CookieManager of src/cookies.ts.  Strings are sequences of      *)
(* characters; an attribute of a Set-Cookie header is kept as one element. *)
(***************************************************************************)
HexDigits ==
  {"0", "1", "2", "3", "4", "5", "6", "7", "8", "9",
   "a", "b", "c", "d", "e", "f", "A", "B", "C", "D", "E", "F"}

\* A version 4 UUID in the textual form of crypto.randomUUID: every free hex
\* digit is h, the variant digit is v.
UUIDv4(h, v) ==
  [i \in 1..36 |-> IF i \in {9, 14, 19, 24} THEN "-"
                   ELSE IF i = 15 THEN "4"
                   ELSE IF i = 20 THEN v
                   ELSE h]

\* crypto.randomUUID(): lower-case hex digits, variant digit 8, 9, a or b.
GeneratedIds == {UUIDv4(h, v) : h \in {"0", "7", "f"}, v \in {"8", "b"}}

generateSecureSessionId(fresh) == fresh

\* Variant: accepts the variant digits 8 and 9 only.
isValidSessionId_narrowVariant(sessionId) ==
  /\ Len(sessionId) = 36
  /\ \A i \in 1..36 :
       IF i \in {9, 14, 19, 24} THEN sessionId[i] = "-"
       ELSE IF i = 15 THEN sessionId[i] = "4"
       ELSE IF i = 20 THEN sessionId[i] \in {"8", "9"}
       ELSE sessionId[i] \in HexDigits

\* /^[0-9a-f]{8}-[0-9a-f]{4}-4[0-9a-f]{3}-[89ab][0-9a-f]{3}-[0-9a-f]{12}$/i
isValidSessionId(sessionId) ==
  /\ Len(sessionId) = 36
  /\ \A i \in 1..36 :
       IF i \in {9, 14, 19, 24} THEN sessionId[i] = "-"
       ELSE IF i = 15 THEN sessionId[i] = "4"
       ELSE IF i = 20 THEN sessionId[i] \in {"8", "9", "a", "b", "A", "B"}
       ELSE sessionId[i] \in HexDigits

\* config.session.cookieName
cookieName == <<"s", "i", "d">>

\* encodeURIComponent: the characters of the alphabet that are not unreserved.
encodeURIComponent(value) ==
  Concat([i \in 1..Len(value) |->
            CASE value[i] = ";" -> <<"%", "3", "B">>
              [] value[i] = "=" -> <<"%", "3", "D">>
              [] value[i] = "%" -> <<"%", "2", "5">>
              [] value[i] = " " -> <<"%", "2", "0">>
              [] OTHER -> <<value[i]>>])

\* The character a percent escape stands for (escapes of the alphabet; "?"
\* stands for any other character below 0x80).
PercentChar(a, b) ==
  CASE <<a, b>> = <<"3", "B">> -> ";"
    [] <<a, b>> = <<"3", "D">> -> "="
    [] <<a, b>> = <<"2", "5">> -> "%"
    [] <<a, b>> = <<"2", "0">> -> " "
    [] <<a, b>> = <<"4", "1">> -> "A"
    [] OTHER -> "?"

\* decodeURIComponent: throws URIError on a "%" that two hex digits do not
\* follow (ok = FALSE).
RECURSIVE decodeURIComponent(_)
decodeURIComponent(value) ==
  IF value = <<>> THEN [ok |-> TRUE, chars |-> <<>>]
  ELSE IF Head(value) = "%"
    THEN IF Len(value) >= 3 /\ value[2] \in HexDigits /\ value[3] \in HexDigits
           THEN LET rest == decodeURIComponent(SubSeq(value, 4, Len(value)))
                IN [ok |-> rest.ok,
                    chars |-> <<PercentChar(value[2], value[3])>> \o rest.chars]
           ELSE [ok |-> FALSE, chars |-> <<>>]
    ELSE LET rest == decodeURIComponent(Tail(value))
         IN [ok |-> rest.ok, chars |-> <<Head(value)>> \o rest.chars]

\* String.split(sep), String.trim, Array.join(sep)
RECURSIVE Split(_, _)
Split(chars, sep) ==
  LET hits == {i \in 1..Len(chars) : chars[i] = sep}
  IN IF hits = {} THEN <<chars>>
     ELSE LET i == CHOOSE x \in hits : \A y \in hits : x <= y
          IN <<SubSeq(chars, 1, i - 1)>> \o Split(SubSeq(chars, i + 1, Len(chars)), sep)

RECURSIVE Trim(_)
Trim(chars) ==
  IF chars = <<>> THEN chars
  ELSE IF Head(chars) = " " THEN Trim(Tail(chars))
  ELSE IF chars[Len(chars)] = " " THEN Trim(SubSeq(chars, 1, Len(chars) - 1))
  ELSE chars

RECURSIVE Join(_, _)
Join(parts, sep) ==
  IF parts = <<>> THEN <<>>
  ELSE IF Len(parts) = 1 THEN parts[1]
  ELSE parts[1] \o sep \o Join(Tail(parts), sep)

(***************************************************************************)
(* Requests.  A request has no Cookie header, or the header the browser    *)
(* builds from the cookies it holds: name=value pairs joined by "; ".      *)
(***************************************************************************)
Cookie(name, value) == [name |-> name, value |-> value]

HeaderOf(pairs) ==
  Join([i \in 1..Len(pairs) |-> pairs[i].name \o <<"=">> \o pairs[i].value],
       <<";", " ">>)

NoCookieRequest == [present |-> FALSE, header |-> <<>>, pairs |-> <<>>]

RequestWith(pairs) == [present |-> TRUE, header |-> HeaderOf(pairs), pairs |-> pairs]

\* Cookies of other applications of the same site: a plain value, a value
\* with a percent escape, and a value with a bare percent sign.
OtherCookies ==
  {Cookie(<<"x">>, <<"1">>), Cookie(<<"x">>, <<"%", "4", "1">>),
   Cookie(<<"x">>, <<"5", "0", "%">>)}

\* Values of the session cookie: a version 4 UUID in lower and in upper
\* case, a version 1 UUID, a UUID cut short, the empty string, and text
\* with a percent sign that no hex digits follow.
SessionCookieValues ==
  {UUIDv4("1", "a"), UUIDv4("A", "B"), [UUIDv4("1", "a") EXCEPT ![15] = "1"],
   SubSeq(UUIDv4("1", "a"), 1, 35), <<>>, <<"%", "z", "z">>}

Requests ==
  {NoCookieRequest}
    \cup {RequestWith(<<Cookie(cookieName, v)>>) : v \in SessionCookieValues}
    \cup {RequestWith(<<o>>) : o \in OtherCookies}
    \cup {RequestWith(<<o, Cookie(cookieName, UUIDv4("1", "a"))>>) : o \in OtherCookies}
    \cup {RequestWith(<<Cookie(<<"s", "i", "d", "2">>, UUIDv4("1", "a"))>>)}

(***************************************************************************)
(* CookieManager.parseCookies: the cookies of the header, or threw when    *)
(* decodeURIComponent throws on one of the values.                         *)
(***************************************************************************)
RECURSIVE ParsePairs(_, _)
ParsePairs(pairs, cookies) ==
  IF pairs = <<>> THEN [threw |-> FALSE, cookies |-> cookies]
  ELSE LET parts == Split(Trim(Head(pairs)), "=")
           name == parts[1]
           valueParts == Tail(parts)
       IN IF name # <<>> /\ Len(valueParts) > 0
            THEN LET decoded == decodeURIComponent(Join(valueParts, <<"=">>))
                 IN IF decoded.ok
                      THEN ParsePairs(Tail(pairs), MapSet(cookies, name, decoded.chars))
                      ELSE [threw |-> TRUE, cookies |-> cookies]
            ELSE ParsePairs(Tail(pairs), cookies)

parseCookies(request) ==
  IF ~request.present \/ request.header = <<>>
    THEN [threw |-> FALSE, cookies |-> EmptyMap]
    ELSE ParsePairs(Split(request.header, ";"), EmptyMap)

\* CookieManager.getSessionId: found = FALSE stands for null.
getSessionId(request) ==
  LET parsed == parseCookies(request)
  IN IF parsed.threw
       THEN [threw |-> TRUE, found |-> FALSE, sessionId |-> <<>>]
       ELSE IF /\ cookieName \in DOMAIN parsed.cookies
               /\ parsed.cookies[cookieName] # <<>>
               /\ isValidSessionId(parsed.cookies[cookieName])
         THEN [threw |-> FALSE, found |-> TRUE, sessionId |-> parsed.cookies[cookieName]]
         ELSE [threw |-> FALSE, found |-> FALSE, sessionId |-> <<>>]

\* CookieManager.formatCookie, with the options createSessionCookie passes:
\* Max-Age, Path, HttpOnly and SameSite (cookieSecure off).
formatCookie(name, value) ==
  Join(<<name \o <<"=">> \o encodeURIComponent(value),
         <<"Max-Age=cookieMaxAge">>, <<"Path=/">>, <<"HttpOnly">>,
         <<"SameSite=cookieSameSite">>>>,
       <<";", " ">>)

createSessionCookie(sessionId) == formatCookie(cookieName, sessionId)

\* CookieManager.handleSession; `fresh` is what crypto.randomUUID returns
\* when it is called.  cookieHeader <<>> stands for undefined.
handleSession(request, fresh) ==
  LET got == getSessionId(request)
  IN IF got.threw
       THEN [threw |-> TRUE, sessionId |-> <<>>, isNewSession |-> FALSE,
             cookieHeader |-> <<>>]
       ELSE IF ~got.found
         THEN [threw |-> FALSE, sessionId |-> generateSecureSessionId(fresh),
               isNewSession |-> TRUE,
               cookieHeader |-> createSessionCookie(generateSecureSessionId(fresh))]
         ELSE [threw |-> FALSE, sessionId |-> got.sessionId, isNewSession |-> FALSE,
               cookieHeader |-> <<>>]

\* The /ws branch of handleRequest:
\* getSessionId(request) || generateSessionId(), no cookie is set.
upgradeSessionId(request, fresh) ==
  LET got == getSessionId(request)
  IN IF got.threw
       THEN [threw |-> TRUE, sessionId |-> <<>>, isNewSession |-> FALSE,
             cookieHeader |-> <<>>]
       ELSE [threw |-> FALSE,
             sessionId |-> IF got.found THEN got.sessionId
                           ELSE generateSecureSessionId(fresh),
             isNewSession |-> ~got.found, cookieHeader |-> <<>>]

\* The cookie a browser keeps from a Set-Cookie header: its name=value pair,
\* the text before the first ";".
StoredCookie(setCookie) ==
  LET pair == Split(Split(setCookie, ";")[1], "=")
  IN Cookie(pair[1], Join(Tail(pair), <<"=">>))

\* An HTTP request of a browser, handled by handleSession.
HandleSession(request, fresh) ==
  /\ lastOp' = Op("handleSession", 0, [request |-> request, after |-> NoCookieRequest],
                  handleSession(request, fresh))
  /\ UNCHANGED <<connections, sessionConnections, stats, components,
                 routeMessageHandler, routes, sockets, outbox, inbox, pending,
                 invoked, lastSends, lifecycle>>

\* The browser that was just issued a session cookie makes its next request:
\* it presents the cookie it stored, alone or after the cookie of another
\* application.
Revisit(others, fresh) ==
  /\ lastOp.op \in {"handleSession", "revisit"}
  /\ ~lastOp.ret.threw
  /\ lastOp.ret.isNewSession
  /\ LET request == RequestWith(others \o <<StoredCookie(lastOp.ret.cookieHeader)>>)
     IN lastOp' = Op("revisit", 0, [request |-> request, after |-> lastOp.arg.request],
                     handleSession(request, fresh))
  /\ UNCHANGED <<connections, sessionConnections, stats, components,
                 routeMessageHandler, routes, sockets, outbox, inbox, pending,
                 invoked, lastSends, lifecycle>>

\* A WebSocket upgrade request on /ws.
UpgradeRequest(request, fresh) ==
  /\ lastOp' = Op("upgradeRequest", 0, [request |-> request, after |-> NoCookieRequest],
                  upgradeSessionId(request, fresh))
  /\ UNCHANGED <<connections, sessionConnections, stats, components,
                 routeMessageHandler, routes, sockets, outbox, inbox, pending,
                 invoked, lastSends, lifecycle>>

(***************************************************************************)
(* The browser-side client, window.Weblisk of the script that every page   *)
(* carries.  Its state is the record held in lastOp.ret after each of its  *)
(* steps: the readyState of this.ws, isConnected, the timers set with      *)
(* setTimeout (in the order they were set, each with the second it is due),*)
(* the browser's clock in seconds, and the number of sockets created.      *)
(***************************************************************************)
ReconnectDelay == 3    \* setTimeout(() => this.connect(), 3000)
ReloadDelay == 1       \* setTimeout(() => location.reload(), 1000)

ClientCloseCodes == {1000, 1001, 1006, 1011}

ClientOps == {"client.load", "client.onopen", "client.onclose", "client.onerror",
              "client.timer", "client.tick"}

NewPage(now, connects) ==
  [ws |-> "none", isConnected |-> FALSE, timers |-> <<>>, now |-> now,
   connects |-> connects]

Timer(fn, due) == [fn |-> fn, due |-> due]

\* connect(): this.ws = new WebSocket(wsUrl), with its four handlers.
Weblisk_connect(cl) == [cl EXCEPT !.ws = "connecting", !.connects = @ + 1]

ws_onopen(cl) == [cl EXCEPT !.ws = "open", !.isConnected = TRUE]

\* Variant: the retry delay grows with the number of attempts made.
ws_onclose_backsOff(cl, code) ==
  LET down == [cl EXCEPT !.ws = "closed", !.isConnected = FALSE]
  IN IF code = 1006 \/ code = 1001
     THEN [down EXCEPT !.timers = Append(@, Timer("reload", cl.now + ReloadDelay))]
     ELSE [down EXCEPT !.timers =
             Append(@, Timer("connect", cl.now + ReconnectDelay * cl.connects))]

ws_onclose(cl, code) ==
  LET down == [cl EXCEPT !.ws = "closed", !.isConnected = FALSE]
  IN IF code = 1006 \/ code = 1001
     THEN [down EXCEPT !.timers = Append(@, Timer("reload", cl.now + ReloadDelay))]
     ELSE [down EXCEPT !.timers = Append(@, Timer("connect", cl.now + ReconnectDelay))]

\* console.error only.
ws_onerror(cl) == cl

RemoveAt(seq, i) == SubSeq(seq, 1, i - 1) \o SubSeq(seq, i + 1, Len(seq))

\* A timer callback: this.connect(), or location.reload(), which discards
\* the page with its timers and runs the script of the page again.
fireTimer(cl, i) ==
  IF cl.timers[i].fn = "connect"
  THEN Weblisk_connect([cl EXCEPT !.timers = RemoveAt(@, i)])
  ELSE Weblisk_connect(NewPage(cl.now, cl.connects))

ClientStep(op, arg, cl) ==
  /\ lastOp' = Op(op, 0, arg, cl)
  /\ UNCHANGED <<connections, sessionConnections, stats, components,
                 routeMessageHandler, routes, sockets, outbox, inbox, pending,
                 invoked, lastSends, lifecycle>>

\* The page is loaded and its script connects.
ClientLoad ==
  /\ lastOp.op \notin ClientOps
  /\ ClientStep("client.load", 0, Weblisk_connect(NewPage(0, 0)))

ClientOpen ==
  /\ lastOp.op \in ClientOps
  /\ lastOp.ret.ws = "connecting"
  /\ ClientStep("client.onopen", 0, ws_onopen(lastOp.ret))

\* The close event of this.ws: of an open socket, or of one that never opened.
ClientClose(code) ==
  /\ lastOp.op \in ClientOps
  /\ lastOp.ret.ws \in {"connecting", "open"}
  /\ ClientStep("client.onclose", code, ws_onclose(lastOp.ret, code))

ClientError ==
  /\ lastOp.op \in ClientOps
  /\ lastOp.op # "client.onerror"
  /\ lastOp.ret.ws \in {"connecting", "open"}
  /\ ClientStep("client.onerror", 0, ws_onerror(lastOp.ret))

ClientTimer(i) ==
  /\ lastOp.op \in ClientOps
  /\ i \in 1..Len(lastOp.ret.timers)
  /\ lastOp.ret.timers[i].due <= lastOp.ret.now
  /\ ClientStep("client.timer", lastOp.ret.timers[i], fireTimer(lastOp.ret, i))

\* A second passes; a timer that is due fires before the next one does.
ClientTick ==
  /\ lastOp.op \in ClientOps
  /\ lastOp.ret.now < MaxClientTime
  /\ \A i \in 1..Len(lastOp.ret.timers) : lastOp.ret.timers[i].due > lastOp.ret.now
  /\ ClientStep("client.tick", 0, [lastOp.ret EXCEPT !.now = @ + 1])

(***************************************************************************)
(* WebliskFramework.start / stop and graceful shutdown.  lifecycle holds   *)
(*   server        whether this.server is defined                          *)
(*   shuttingDown  the flag of the closure of each start() call, in the    *)
(*                 order the shutdown handlers were added as listeners     *)
(*   stopping      stop() calls suspended at `await this.server.shutdown()`*)
(*   exited        Deno.exit(0) was called                                 *)
(* and counts the signals delivered, the stop() calls made by shutdown     *)
(* handlers, and the closeAllConnections calls those made.                 *)
(***************************************************************************)
Signals == {"SIGINT", "SIGTERM"}

\* stop() up to its await: nothing without a server; otherwise it closes
\* all connections and waits for the server to shut down.
stop(m, lc) ==
  IF lc.server
    THEN [m |-> closeAllConnections(m).m,
          lc |-> [lc EXCEPT !.stopping = @ + 1], ran |-> TRUE]
    ELSE [m |-> m, lc |-> lc, ran |-> FALSE]

\* The shutdown handler that the i-th start() call registered, up to its
\* await: returns at once when its own flag is set, else sets it and calls
\* stop().
shutdownHandler(st, i) ==
  IF st.lc.shuttingDown[i] THEN st
  ELSE LET r == stop(st.m, [st.lc EXCEPT !.shuttingDown[i] = TRUE])
       IN [m |-> r.m,
           lc |-> [r.lc EXCEPT !.stopsBySignal = @ + 1,
                               !.closeAllsBySignal = @ + (IF r.ran THEN 1 ELSE 0)]]

\* The delivery of a signal calls every listener, in the order they were added.
RECURSIVE Dispatch(_, _)
Dispatch(st, i) ==
  IF i > Len(st.lc.shuttingDown) THEN st
  ELSE Dispatch(shutdownHandler(st, i), i + 1)

ShutdownBySignal ==
  \E i \in 1..Len(lifecycle.shuttingDown) : lifecycle.shuttingDown[i]

\* start(): this.server = Deno.serve(...), a new shuttingDown flag, and its
\* handler added as listener of both signals.  The application starts a
\* server when none runs and the process is not on its way out.
Start ==
  /\ ~lifecycle.exited
  /\ ~ShutdownBySignal
  /\ ~lifecycle.server
  /\ Len(lifecycle.shuttingDown) < MaxStarts
  /\ lifecycle' = [lifecycle EXCEPT !.server = TRUE,
                                    !.shuttingDown = Append(@, FALSE)]
  /\ lastOp' = Op("start", 0, "", "")
  /\ lastSends' = <<>>
  /\ UNCHANGED <<connections, sessionConnections, stats, components,
                 routeMessageHandler, routes, sockets, outbox, inbox, pending,
                 invoked>>

\* The application calls stop().
Stop ==
  /\ ~lifecycle.exited
  /\ lifecycle.stopping = 0
  /\ LET r == stop(Manager, lifecycle)
     IN /\ Commit(r.m)
        /\ lifecycle' = r.lc
        /\ lastOp' = Op("stop", 0, "", r.ran)
  /\ UNCHANGED <<components, routeMessageHandler, routes, inbox, pending, invoked>>

\* SIGINT or SIGTERM is delivered to the process.
Signal(sig) ==
  /\ ~lifecycle.exited
  /\ lifecycle.shuttingDown # <<>>
  /\ lifecycle.signals < MaxSignals
  /\ LET r == Dispatch([m |-> Manager, lc |-> lifecycle], 1)
     IN /\ Commit(r.m)
        /\ lifecycle' = [r.lc EXCEPT !.signals = @ + 1]
        /\ lastOp' = Op("signal", 0, sig, "")
  /\ UNCHANGED <<components, routeMessageHandler, routes, inbox, pending, invoked>>

\* server.shutdown() resolves: the suspended stop() calls set this.server to
\* undefined, and a shutdown handler that awaited one of them calls
\* Deno.exit(0).
ShutdownResolved ==
  /\ ~lifecycle.exited
  /\ lifecycle.stopping > 0
  /\ lifecycle' = [lifecycle EXCEPT !.server = FALSE, !.stopping = 0,
                                    !.exited = ShutdownBySignal]
  /\ lastOp' = Op("shutdownResolved", 0, "", "")
  /\ lastSends' = <<>>
  /\ UNCHANGED <<connections, sessionConnections, stats, components,
                 routeMessageHandler, routes, sockets, outbox, inbox, pending,
                 invoked>>

\* A shutdown handler that ran gets past its Promise.race by the 2 second
\* timeout, or at once when its stop() had nothing to do, and calls
\* Deno.exit(0).
Exit ==
  /\ ~lifecycle.exited
  /\ ShutdownBySignal
  /\ lifecycle' = [lifecycle EXCEPT !.exited = TRUE]
  /\ lastOp' = Op("exit", 0, "", "")
  /\ lastSends' = <<>>
  /\ UNCHANGED <<connections, sessionConnections, stats, components,
                 routeMessageHandler, routes, sockets, outbox, inbox, pending,
                 invoked>>

(***************************************************************************)
(* Specification                                                           *)
(***************************************************************************)
\* The registry specification: the connection life cycle and the API, with
\* the dispatcher reduced to CoreFrames.
Next ==
  \/ \E name \in ComponentNames, definition \in ComponentDefinitions :
       registerComponent(name, definition)
  \/ \E sessionId \in SessionIds : handleUpgrade(sessionId)
  \/ \E c \in ConnIds : OnOpen(c)
  \/ \E c \in ConnIds, frame \in CoreFrames :
       stats.messagesReceived < MaxCoreFrames /\ OnMessage(c, frame)
  \/ \E p \in pending, outcome \in Settlements : Settle(p, outcome)
  \/ \E c \in ConnIds, code \in CloseCodes : OnClose(c, code)
  \/ \E c \in ConnIds : OnError(c)
  \/ \E sessionId \in SessionIds, message \in AppMessages :
       BroadcastToSession(sessionId, message)
  \/ \E c \in ConnIds : CloseConnection(c)
  \/ CloseAllConnections
  \/ Cleanup

Spec == Init /\ [][Next]_vars

(***************************************************************************)
(* The dispatcher specification: every frame, and the part of the          *)
(* connection life cycle a dispatch can interleave with; the connections   *)
(* belong to one session.                                                  *)
(***************************************************************************)
NextDispatch ==
  \/ \E f \in Frameworks : NewFramework(f)
  \/ \E f \in Frameworks, path \in Paths, events \in SUBSET UserEvents :
       AddRoute(f, path, events)
  \/ \E name \in ComponentNames, definition \in ComponentDefinitions :
       registerComponent(name, definition)
  \/ \E sessionId \in {"s1"} : handleUpgrade(sessionId)
  \/ \E c \in ConnIds : OnOpen(c)
  \/ \E c \in ConnIds, frame \in Frames : OnMessage(c, frame)
  \/ \E p \in pending, outcome \in Settlements : Settle(p, outcome)
  \/ \E c \in ConnIds, code \in CloseCodes : OnClose(c, code)

SpecDispatch == Init /\ [][NextDispatch]_vars

(***************************************************************************)
(* The broadcast specification: the connection life cycle, server-side     *)
(* closing, and the two broadcast operations.                              *)
(***************************************************************************)
NextBroadcast ==
  \/ \E sessionId \in SessionIds : handleUpgrade(sessionId)
  \/ \E c \in ConnIds : OnOpen(c)
  \/ \E c \in ConnIds, code \in CloseCodes : OnClose(c, code)
  \/ \E c \in ConnIds : CloseConnection(c)
  \/ \E sessionId \in SessionIds, message \in AppMessages :
       BroadcastToSession(sessionId, message)
  \/ \E message \in AppMessages, options \in BroadcastOptions :
       Broadcast(message, options)
  \/ \E c \in ConnIds, message \in AppMessages : SendToConnection(c, message)

SpecBroadcast == Init /\ [][NextBroadcast]_vars

(***************************************************************************)
(* The resolution specification: one connection, components registered     *)
(* under an application name and under a scope name, with and without a    *)
(* route message fallback.                                                 *)
(***************************************************************************)
NextResolve ==
  \/ \E f \in Frameworks : NewFramework(f)
  \/ \E f \in Frameworks, path \in ResolvePaths, events \in SUBSET UserEvents :
       AddRoute(f, path, events)
  \/ \E name \in ResolveComponentNames, definition \in ComponentDefinitions :
       registerComponent(name, definition)
  \/ \E sessionId \in {"s1"} : FreshIds = ConnIds /\ handleUpgrade(sessionId)
  \/ \E c \in ConnIds : OnOpen(c)
  \/ \E c \in ConnIds, frame \in ResolveFrames : OnMessage(c, frame)
  \/ \E p \in pending, outcome \in Settlements : Settle(p, outcome)
  \/ \E c \in ConnIds, code \in CloseCodes : OnClose(c, code)

SpecResolve == Init /\ [][NextResolve]_vars

(***************************************************************************)
(* The session specification: requests with and without cookies, and the   *)
(* browser coming back with the cookie it was issued.                      *)
(***************************************************************************)
NextSession ==
  \/ \E request \in Requests, fresh \in GeneratedIds : HandleSession(request, fresh)
  \/ \E others \in {<<>>, <<Cookie(<<"x">>, <<"1">>)>>}, fresh \in GeneratedIds :
       Revisit(others, fresh)
  \/ \E request \in Requests, fresh \in GeneratedIds : UpgradeRequest(request, fresh)

SpecSession == Init /\ [][NextSession]_vars

(***************************************************************************)
(* The consumers specification: the registry's writers (open and close     *)
(* events) interleaved with its readers, the dispatcher and the three      *)
(* sending operations of the API.                                          *)
(***************************************************************************)
NextConsumers ==
  \/ \E name \in ComponentNames, definition \in ComponentDefinitions :
       registerComponent(name, definition)
  \/ \E sessionId \in SessionIds : handleUpgrade(sessionId)
  \/ \E c \in ConnIds : OnOpen(c)
  \/ \E c \in ConnIds, frame \in CoreFrames : OnMessage(c, frame)
  \/ \E p \in pending, outcome \in Settlements : Settle(p, outcome)
  \/ \E c \in ConnIds, code \in CloseCodes : OnClose(c, code)
  \/ \E c \in ConnIds : CloseConnection(c)
  \/ \E sessionId \in SessionIds, message \in AppMessages :
       BroadcastToSession(sessionId, message)
  \/ \E message \in AppMessages, options \in BroadcastOptions :
       Broadcast(message, options)
  \/ \E c \in ConnIds, message \in AppMessages : SendToConnection(c, message)

SpecConsumers == Init /\ [][NextConsumers]_vars

(***************************************************************************)
(* The fallback specification: one framework with up to MaxResolveRoutes   *)
(* routes, one connection, route-scoped messages only.                     *)
(***************************************************************************)
NextFallback ==
  \/ \E f \in Frameworks : NewFramework(f)
  \/ \E f \in Frameworks, path \in ResolvePaths, events \in SUBSET UserEvents :
       AddRoute(f, path, events)
  \/ \E sessionId \in {"s1"} : FreshIds = ConnIds /\ handleUpgrade(sessionId)
  \/ \E c \in ConnIds : OnOpen(c)
  \/ \E c \in ConnIds, frame \in FallbackFrames : OnMessage(c, frame)
  \/ \E p \in pending, outcome \in Settlements : Settle(p, outcome)
  \/ \E c \in ConnIds, code \in CloseCodes : OnClose(c, code)

SpecFallback == Init /\ [][NextFallback]_vars

(***************************************************************************)
(* The instances specification: two framework instances in one process,    *)
(* constructed in either order, the second one before or after connections *)
(* exist, each with its own routes.                                        *)
(***************************************************************************)
NextInstances ==
  \/ \E f \in Instances : Construct(f)
  \/ \E f \in Instances, path \in Paths, events \in SUBSET UserEvents :
       AddRoute(f, path, events)
  \/ \E sessionId \in {"s1"} : handleUpgrade(sessionId)
  \/ \E c \in ConnIds : OnOpen(c)
  \/ \E c \in ConnIds, frame \in InstanceFrames : OnMessage(c, frame)
  \/ \E p \in pending, outcome \in Settlements : Settle(p, outcome)
  \/ \E c \in ConnIds, code \in CloseCodes : OnClose(c, code)

SpecInstances == Init /\ [][NextInstances]_vars

(***************************************************************************)
(* The shutdown specification: one framework started, stopped and started  *)
(* again by the application, connections while its server runs, and the    *)
(* signals of the process.                                                 *)
(***************************************************************************)
NextShutdown ==
  \/ Start
  \/ Stop
  \/ \E sig \in Signals : Signal(sig)
  \/ ShutdownResolved
  \/ Exit
  \/ \E sessionId \in {"s1"} :
       ~lifecycle.exited /\ lifecycle.server /\ handleUpgrade(sessionId)
  \/ \E c \in ConnIds : ~lifecycle.exited /\ OnOpen(c)
  \/ \E c \in ConnIds, code \in CloseCodes : ~lifecycle.exited /\ OnClose(c, code)

SpecShutdown == Init /\ [][NextShutdown]_vars

(***************************************************************************)
(* The rate limiter of the security module (lib/security.ts), consulted by *)
(* handleRoute before any other HTTP-level work.  Its state is kept in     *)
(* lastOp.ret: the map of the singleton, the clock, the configuration of   *)
(* the framework, the value returned by the last call, and a monitor that  *)
(* follows the windows of each key from the returned values alone.         *)
(***************************************************************************)
\* A request, by the three headers the limiter reads: X-Forwarded-For as the
\* list of its comma-separated items, the other two as strings ("" = absent).
RateLimitRequests ==
  [forwardedFor : {<<>>, <<"a">>, <<"a", "b">>},
   realIP : {"", "a"},
   cfConnectingIP : {"", "a"}]

RateLimitConfigs == [windowMs : 1..MaxWindow, maxRequests : 1..MaxRequests]

SecurityOps == {"security.new", "security.checkRateLimit",
                "security.cleanupRateLimit", "security.tick"}

getClientIP(request) ==
  IF request.forwardedFor # <<>> THEN Head(request.forwardedFor)
  ELSE IF request.realIP # "" THEN request.realIP
  ELSE IF request.cfConnectingIP # "" THEN request.cfConnectingIP
  ELSE "unknown"

ClientKeys == {getClientIP(request) : request \in RateLimitRequests}

Entry(count, resetTime) == [count |-> count, resetTime |-> resetTime]

\* Variant: the limit is compared with > instead of >=.
checkRateLimit_allowsOneMore(sec, request, config) ==
  LET key == getClientIP(request)
      now == sec.now
  IN IF key \notin DOMAIN sec.rateLimitMap \/ now > sec.rateLimitMap[key].resetTime
     THEN [sec EXCEPT !.rateLimitMap = MapSet(@, key, Entry(1, now + config.windowMs)),
                      !.returned = TRUE]
     ELSE IF sec.rateLimitMap[key].count > config.maxRequests
     THEN [sec EXCEPT !.returned = FALSE]
     ELSE [sec EXCEPT !.rateLimitMap[key].count = @ + 1, !.returned = TRUE]

checkRateLimit(sec, request, config) ==
  LET key == getClientIP(request)
      now == sec.now
  IN IF key \notin DOMAIN sec.rateLimitMap \/ now > sec.rateLimitMap[key].resetTime
     THEN [sec EXCEPT !.rateLimitMap = MapSet(@, key, Entry(1, now + config.windowMs)),
                      !.returned = TRUE]
     ELSE IF sec.rateLimitMap[key].count >= config.maxRequests
     THEN [sec EXCEPT !.returned = FALSE]
     ELSE [sec EXCEPT !.rateLimitMap[key].count = @ + 1, !.returned = TRUE]

cleanupRateLimit(sec) ==
  LET kept == {key \in DOMAIN sec.rateLimitMap :
                 ~(sec.now > sec.rateLimitMap[key].resetTime)}
  IN [sec EXCEPT !.rateLimitMap = [key \in kept |-> sec.rateLimitMap[key]]]

\* The monitor of one key: the end of the window it is in, the calls that
\* returned true in it, whether one returned false in it, and whether the
\* window before it ended with a call that returned false.
NoWindow == [end |-> -1, grants |-> 0, denied |-> FALSE, after |-> FALSE]

Observe(w, now, windowMs, returned) ==
  LET cur == IF now > w.end
             THEN [end |-> now + windowMs, grants |-> 0, denied |-> FALSE,
                   after |-> w.denied]
             ELSE w
  IN [cur EXCEPT !.grants = @ + (IF returned THEN 1 ELSE 0),
                 !.denied = @ \/ ~returned]

SecurityStep(op, arg, sec) ==
  /\ lastOp' = Op(op, 0, arg, sec)
  /\ UNCHANGED <<connections, sessionConnections, stats, components,
                 routeMessageHandler, routes, sockets, outbox, inbox, pending,
                 invoked, lastSends, lifecycle>>

\* The module is loaded and the framework is constructed with its
\* configuration; rate limiting is enabled.
SecurityNew(config) ==
  /\ lastOp.op \notin SecurityOps
  /\ SecurityStep("security.new", "",
       [rateLimitMap |-> <<>>, now |-> 0, config |-> config, returned |-> TRUE,
        windows |-> [key \in ClientKeys |-> NoWindow]])

\* handleRoute's security check of one request.
CheckRateLimit(request) ==
  /\ lastOp.op \in SecurityOps
  /\ LET sec == lastOp.ret
         key == getClientIP(request)
         rateLimitConfig == [windowMs |-> sec.config.windowMs,
                             maxRequests |-> sec.config.maxRequests]
         after == checkRateLimit(sec, request, rateLimitConfig)
     IN SecurityStep("security.checkRateLimit", key,
          [after EXCEPT !.windows[key] =
             Observe(@, sec.now, sec.config.windowMs, after.returned)])

\* The cleanup interval fires.
CleanupRateLimit ==
  /\ lastOp.op \in SecurityOps
  /\ SecurityStep("security.cleanupRateLimit", "", cleanupRateLimit(lastOp.ret))

SecurityTick ==
  /\ lastOp.op \in SecurityOps
  /\ lastOp.ret.now < MaxNow
  /\ SecurityStep("security.tick", "", [lastOp.ret EXCEPT !.now = @ + 1])

(***************************************************************************)
(* The rate limit specification: one configuration, requests of a client   *)
(* with an address and of clients without, the cleanup interval and the    *)
(* clock.                                                                  *)
(***************************************************************************)
NextRateLimit ==
  \/ \E config \in RateLimitConfigs : SecurityNew(config)
  \/ \E request \in RateLimitRequests : CheckRateLimit(request)
  \/ CleanupRateLimit
  \/ SecurityTick

SpecRateLimit == Init /\ [][NextRateLimit]_vars

(***************************************************************************)
(* The client specification: one browser page, its socket and its timers.  *)
(***************************************************************************)
NextClient ==
  \/ ClientLoad
  \/ ClientOpen
  \/ \E code \in ClientCloseCodes : ClientClose(code)
  \/ ClientError
  \/ \E i \in 1..2 : ClientTimer(i)
  \/ ClientTick

SpecClient == Init /\ [][NextClient]_vars

(***************************************************************************)
(* Properties                                                              *)
(***************************************************************************)
Registered == DOMAIN connections
Indexed == UNION {sessionConnections[s] : s \in DOMAIN sessionConnections}
EverOpened(c) == outbox[c] # <<>>

\* C1: after every register and unregister, the connection ids of the primary
\* map are exactly the union of the sets of the session index.
C1_RegistryMatchesIndex == Registered = Indexed

\* C1 witness: one connection was registered and unregistered again while
\* another one is registered.
C1_Witness ==
  \E c, d \in ConnIds :
    /\ c \in Registered
    /\ EverOpened(d) /\ sockets[d].readyState = "closed"
    /\ lastOp.op = "onclose"

\* C6: a session id is a key of the session index, and of the per-session
\* report of getConnectionInfo, only while a registered connection belongs
\* to it; no entry holds an empty set.
C6_NoEmptySession ==
  LET info == getConnectionInfo(Manager)
  IN /\ \A s \in DOMAIN sessionConnections :
          /\ sessionConnections[s] # {}
          /\ \E c \in Registered : connections[c].sessionId = s
     /\ DOMAIN info.connectionsPerSession = DOMAIN sessionConnections
     /\ \A s \in DOMAIN info.connectionsPerSession : info.connectionsPerSession[s] > 0
     /\ info.totalSessions = Cardinality({connections[c].sessionId : c \in Registered})

\* C6 witness: the last connection of a session was just unregistered while
\* another session still has one.
C6_Witness ==
  /\ lastOp.op = "onclose"
  /\ EverOpened(lastOp.conn)
  /\ sockets[lastOp.conn].sessionId \notin DOMAIN sessionConnections
  /\ DOMAIN sessionConnections # {}

\* C7: unregistering an id that is not registered changes neither the primary
\* map, nor the session index, nor the statistics; unregistering twice is the
\* same as unregistering once.
C7_UnregisterAbsentIsNoOp ==
  [][/\ \A c \in ConnIds :
          removeConnection(removeConnection(Manager, c), c) = removeConnection(Manager, c)
     /\ (lastOp'.op = "onclose" /\ lastOp'.conn \notin Registered)
          => UNCHANGED <<connections, sessionConnections, stats>>]_vars

\* C7 witness: the close event of a handshake that never opened ran
\* removeConnection on an id that was never registered, next to a registered
\* connection.
C7_Witness ==
  /\ lastOp.op = "onclose"
  /\ ~EverOpened(lastOp.conn)
  /\ Registered # {}

\* C9: once the close event of a connection has been handled, whatever the
\* close code, its id is in neither the primary map nor the session index.
C9_ClosedIsUnregistered ==
  \A c \in ConnIds :
    sockets[c].readyState = "closed" => c \notin Registered /\ c \notin Indexed

\* C9 witness: a registered connection was closed with the abnormal code 1006.
C9_Witness ==
  /\ lastOp.op = "onclose" /\ lastOp.arg = 1006
  /\ EverOpened(lastOp.conn)
  /\ lastOp.conn \notin Registered

\* C10: a connection is registered when it opens and the first envelope on it
\* is connection-established with its own session id and connection id; that
\* envelope occurs once.
C10_EstablishedFirstOnce ==
  \A c \in ConnIds :
    LET established == ConnectionEstablished(sockets[c].sessionId, c)
    IN /\ (c \in Registered \/ sockets[c].readyState \in {"open", "closing"})
            => EverOpened(c)
       /\ EverOpened(c) => outbox[c][1] = established
       /\ Cardinality({i \in 1..Len(outbox[c]) :
                         outbox[c][i].type = "connection-established"}) <= 1
       /\ (lastOp.op = "onopen" /\ lastOp.conn = c)
            => /\ c \in Registered
               /\ outbox[c] = <<established>>
               /\ lastSends = <<[conn |-> c, env |-> established]>>

\* C10 witness: a connection got its welcome, then a reply and a broadcast.
C10_Witness ==
  \E c \in ConnIds :
    /\ Len(outbox[c]) = 3
    /\ outbox[c][2].type # outbox[c][3].type

\* C3: sendToSession(sid, msg) hands msg to connection.send of every registered
\* connection whose sessionId is sid, once each, and of no other connection;
\* the sockets of those that are open get msg, every other socket gets
\* nothing; the registry is left as it was.
C3_SendToSessionTargets ==
  [][lastOp'.op = "broadcastToSession" =>
       LET sid == lastOp'.arg.sessionId
           msg == lastOp'.arg.message
           targets == {c \in Registered : connections[c].sessionId = sid}
       IN /\ {lastSends'[i].conn : i \in 1..Len(lastSends')} = targets
          /\ Len(lastSends') = Cardinality(targets)
          /\ \A i \in 1..Len(lastSends') : lastSends'[i].env = msg
          /\ \A c \in ConnIds :
               outbox'[c] = IF c \in targets /\ sockets[c].readyState = "open"
                              THEN Append(outbox[c], msg)
                              ELSE outbox[c]
          /\ UNCHANGED <<connections, sessionConnections>>]_vars

\* C3 witness: two open connections of different sessions are registered and
\* a message was sent to the session of one of them.
C3_Witness ==
  /\ lastOp.op = "broadcastToSession"
  /\ lastOp.ret = 1
  /\ Cardinality(Registered) = 2
  /\ \A c \in Registered : sockets[c].readyState = "open"

\* C11: the transport of a connection only moves forward along
\* connecting, open, (closing,) closed; a connection is registered at the
\* step from connecting to open and at no other step, so an id that was
\* unregistered is never registered again and a closed one stays closed;
\* every handshake gets an id that no earlier connection had.
C11_LifecycleIsOneWay ==
  [][\A c \in ConnIds :
       LET Rank(state) == CASE state = "absent" -> 0
                            [] state = "connecting" -> 1
                            [] state = "open" -> 2
                            [] state = "closing" -> 3
                            [] state = "closed" -> 4
       IN /\ Rank(sockets'[c].readyState) >= Rank(sockets[c].readyState)
          /\ (c \in DOMAIN connections' /\ c \notin Registered)
               => /\ sockets[c].readyState = "connecting"
                  /\ sockets'[c].readyState = "open"
                  /\ ~EverOpened(c)
          /\ sockets[c].readyState = "closed"
               => /\ sockets'[c].readyState = "closed"
                  /\ c \notin DOMAIN connections'
          /\ (lastOp'.op = "handleUpgrade" /\ lastOp'.conn = c)
               => /\ sockets[c].readyState = "absent"
                  /\ ~EverOpened(c)
                  /\ c \notin Registered]_vars

\* C11 witness: one connection was opened, registered and closed, and the
\* next handshake got another id.
C11_Witness ==
  \E c, d \in ConnIds :
    /\ c # d
    /\ EverOpened(c) /\ sockets[c].readyState = "closed" /\ c \notin Registered
    /\ lastOp.op = "handleUpgrade" /\ lastOp.conn = d
    /\ sockets[d].readyState = "connecting"

(***************************************************************************)
(* Properties of the dispatcher (SpecDispatch)                             *)
(***************************************************************************)
DispatchStep == lastOp'.op \in {"onmessage", "settle"}

\* C2: when the called handler throws, or the promise it returned rejects,
\* the dispatch makes one send, on the originating connection, of an
\* event-result with success false and the error's message; nothing reaches
\* the catch block of onmessage, no other connection gets anything, and the
\* registry is unchanged, so a registered connection stays registered.
C2_ThrowBecomesFailure ==
  [][(DispatchStep /\ lastOp'.ret.kind = "throw") =>
       LET c == lastOp'.conn
           mid == lastOp'.arg
           thrown == lastOp'.ret.error
       IN /\ Len(lastSends') = 1
          /\ lastSends'[1].conn = c
          /\ lastSends'[1].env.type = "event-result"
          /\ lastSends'[1].env.success = FALSE
          /\ lastSends'[1].env.event = inbox'[mid].frame.event
          /\ lastSends'[1].env.error =
               IF thrown.isError THEN thrown.message ELSE thrown.string
          /\ sockets[c].readyState = "open"
               => outbox'[c] = Append(outbox[c], lastSends'[1].env)
          /\ \A d \in ConnIds \ {c} : outbox'[d] = outbox[d]
          /\ stats'.errors = stats.errors
          /\ UNCHANGED <<connections, sessionConnections>>]_vars

\* C2 witness: on a registered connection one handler threw an Error and the
\* promise of another rejected with a string; both replies arrived.
C2_Witness ==
  /\ lastOp.op = "settle" /\ lastOp.ret.kind = "throw"
  /\ lastOp.conn \in Registered
  /\ LET box == outbox[lastOp.conn]
     IN /\ Len(box) = 3
        /\ box[2].type = "event-result" /\ box[2].error = <<"boom">>
        /\ box[3].type = "event-result" /\ box[3].error = <<"oops">>

\* C4 (as claimed): on every connection the replies go out in the order in
\* which their messages arrived.
C4_RepliesInArrivalOrder ==
  \A c \in ConnIds :
    \A i, j \in 2..Len(outbox[c]) :
      (/\ i < j
       /\ outbox[c][i].type = "event-result"
       /\ outbox[c][j].type = "event-result") => outbox[c][i].mid < outbox[c][j].mid

\* C5 (as claimed): every function the dispatcher calls for a message gets
\* the sanitized payload of that message.
C5_HandlersGetSanitizedPayload ==
  \A call \in invoked : call.payload = sanitizeInput(inbox[call.mid].frame.payload)

\* C8 (as claimed): a message whose component has no server handler and whose
\* event name no route of the installed framework defines (or with no
\* fallback installed) is answered on its connection with an event-result
\* with success false and a non-empty error, and the registry is unchanged.
NoComponentHandler(message) ==
  ~(message.component \in DOMAIN components /\ components[message.component].server)

NoRouteDefines(eventName) ==
  \/ routeMessageHandler = "none"
  \/ \A i \in 1..Len(routes[routeMessageHandler]) :
       eventName \notin buildEvents(routes[routeMessageHandler][i])

C8_UnknownEventFails ==
  [][(/\ lastOp'.op = "onmessage"
      /\ inbox'[lastOp'.arg].frame.kind = "msg"
      /\ NoComponentHandler(inbox'[lastOp'.arg].frame)
      /\ NoRouteDefines(inbox'[lastOp'.arg].frame.event)) =>
       /\ Len(lastSends') = 1
       /\ lastSends'[1].conn = lastOp'.conn
       /\ lastSends'[1].env.type = "event-result"
       /\ lastSends'[1].env.success = FALSE
       /\ lastSends'[1].env.error # <<>>
       /\ UNCHANGED <<connections, sessionConnections>>]_vars

\* C12: every send a dispatch makes, for a result or for a failure, is a send
\* on the connection the message arrived on; the socket of no other
\* connection gets anything in that step, and every event-result a socket
\* ever got answers a message that arrived on that connection.
C12_RepliesOnlyToOrigin ==
  [][DispatchStep =>
       LET c == lastOp'.conn
       IN /\ inbox'[lastOp'.arg].conn = c
          /\ \A i \in 1..Len(lastSends') : lastSends'[i].conn = c
          /\ \A d \in ConnIds \ {c} : outbox'[d] = outbox[d]
          /\ \A d \in ConnIds : \A i \in 1..Len(outbox'[d]) :
               outbox'[d][i].type = "event-result"
                 => inbox'[outbox'[d][i].mid].conn = d]_vars

\* C12 witness: two open connections of one session are registered; a message
\* of one of them was answered on it and the other one has only its welcome.
C12_Witness ==
  /\ lastOp.op = "onmessage"
  /\ Cardinality(Registered) = 2
  /\ \A c \in Registered : sockets[c].readyState = "open"
  /\ Cardinality({connections[c].sessionId : c \in Registered}) = 1
  /\ Len(outbox[lastOp.conn]) = 2
  /\ outbox[lastOp.conn][2].type = "event-result"
  /\ \A d \in Registered \ {lastOp.conn} : Len(outbox[d]) = 1

\* C17: a frame that is not JSON makes the dispatcher call no handler and
\* leave none pending; it is handled in the catch block of onmessage, which
\* makes one send, on the connection of the frame, of an envelope of type
\* error that has no event field; the registry and every socket's state are
\* unchanged, so a registered connection stays registered.
C17_ParseFailureGetsErrorEnvelope ==
  [][(lastOp'.op = "onmessage" /\ inbox'[lastOp'.arg].frame.kind = "invalid") =>
       LET c == lastOp'.conn
       IN /\ invoked' = invoked
          /\ pending' = pending
          /\ lastOp'.ret.kind = "caught"
          /\ Len(lastSends') = 1
          /\ lastSends'[1].conn = c
          /\ lastSends'[1].env.type = "error"
          /\ "event" \notin DOMAIN lastSends'[1].env
          /\ sockets[c].readyState = "open"
               => outbox'[c] = Append(outbox[c], lastSends'[1].env)
          /\ sockets' = sockets
          /\ UNCHANGED <<connections, sessionConnections>>]_vars

\* C17 witness: a registered open connection sent text that is not JSON and
\* got the error envelope after its welcome.
C17_Witness ==
  /\ lastOp.op = "onmessage"
  /\ inbox[lastOp.arg].frame.kind = "invalid"
  /\ lastOp.conn \in Registered
  /\ sockets[lastOp.conn].readyState = "open"
  /\ Len(outbox[lastOp.conn]) = 2
  /\ outbox[lastOp.conn][2].type = "error"

\* C18 (as claimed): a malformed frame, text that is not JSON or a JSON object
\* without fields, is answered with an event-result with success false, and
\* the connection stays open and registered.
C18_MalformedGetsEventResult ==
  [][(/\ lastOp'.op = "onmessage"
      /\ \/ inbox'[lastOp'.arg].frame.kind = "invalid"
         \/ inbox'[lastOp'.arg].frame = EmptyObject) =>
       /\ Len(lastSends') = 1
       /\ lastSends'[1].conn = lastOp'.conn
       /\ lastSends'[1].env.type = "event-result"
       /\ lastSends'[1].env.success = FALSE
       /\ sockets' = sockets
       /\ UNCHANGED <<connections, sessionConnections>>]_vars

\* C18 (amended): a frame that is not JSON, or is the JSON value null, is
\* answered with an envelope of type error; a JSON object that names neither
\* a component nor an event is answered with an event-result with success
\* false and a non-empty error, as an unresolved handler is; in both cases
\* there is one send, on the connection of the frame, and the connection
\* stays open and registered.
C18_MalformedRecoveredLocally ==
  [][(/\ lastOp'.op = "onmessage"
      /\ \/ inbox'[lastOp'.arg].frame.kind \in {"invalid", "null"}
         \/ inbox'[lastOp'.arg].frame = EmptyObject) =>
       /\ Len(lastSends') = 1
       /\ lastSends'[1].conn = lastOp'.conn
       /\ IF inbox'[lastOp'.arg].frame = EmptyObject
            THEN /\ lastSends'[1].env.type = "event-result"
                 /\ lastSends'[1].env.success = FALSE
                 /\ lastSends'[1].env.error # <<>>
            ELSE lastSends'[1].env.type = "error"
       /\ sockets' = sockets
       /\ UNCHANGED <<connections, sessionConnections>>]_vars

\* C18 witness: one open registered connection sent text that is not JSON and
\* an object without fields, and got an error envelope and a failed
\* event-result.
C18_Witness ==
  \E c \in Registered :
    /\ sockets[c].readyState = "open"
    /\ Len(outbox[c]) = 3
    /\ outbox[c][2].type = "error"
    /\ outbox[c][3].type = "event-result" /\ ~outbox[c][3].success
    /\ inbox[outbox[c][2].mid].frame.kind = "invalid"
    /\ inbox[outbox[c][3].mid].frame = EmptyObject

(***************************************************************************)
(* Properties of the broadcast API (SpecBroadcast)                         *)
(***************************************************************************)
\* C13 (as claimed): the count that sendToSession and broadcastAll return is
\* the number of connections whose socket the message was written to; a
\* registered connection whose socket is not open is not counted, so the
\* count is 0 when the session is absent or none of its sockets is open.
C13_CountIsActuallySent ==
  [][lastOp'.op \in {"broadcastToSession", "broadcast"} =>
       lastOp'.ret = Cardinality({c \in ConnIds : outbox'[c] # outbox[c]})]_vars

\* C14: broadcastAll(msg, {excludeSessionId: sid}) hands msg to
\* connection.send of every registered connection whose sessionId is not sid,
\* once each, and of no connection of sid; the open sockets among the former
\* get msg, every other socket gets nothing.
C14_BroadcastExcludesSession ==
  [][(/\ lastOp'.op = "broadcast"
      /\ lastOp'.arg.options.excludeSessionId.value \in SessionIds
      /\ lastOp'.arg.options =
           [NoOptions EXCEPT !.excludeSessionId =
                              Session(lastOp'.arg.options.excludeSessionId.value)]) =>
       LET sid == lastOp'.arg.options.excludeSessionId.value
           msg == lastOp'.arg.message
           targets == {c \in Registered : connections[c].sessionId # sid}
       IN /\ {lastSends'[i].conn : i \in 1..Len(lastSends')} = targets
          /\ Len(lastSends') = Cardinality(targets)
          /\ \A i \in 1..Len(lastSends') : lastSends'[i].env = msg
          /\ \A c \in ConnIds :
               outbox'[c] = IF c \in targets /\ sockets[c].readyState = "open"
                              THEN Append(outbox[c], msg)
                              ELSE outbox[c]
          /\ UNCHANGED <<connections, sessionConnections>>]_vars

\* C14 witness: two open connections of different sessions are registered; a
\* broadcast that excluded the session of one reached only the other.
C14_Witness ==
  /\ lastOp.op = "broadcast"
  /\ lastOp.arg.options = [NoOptions EXCEPT !.excludeSessionId = Session("s1")]
  /\ lastOp.ret = 1
  /\ \E c, d \in Registered :
       /\ connections[c].sessionId = "s1" /\ connections[d].sessionId = "s2"
       /\ sockets[c].readyState = "open" /\ sockets[d].readyState = "open"
       /\ Len(outbox[c]) = 1 /\ Len(outbox[d]) = 2

(***************************************************************************)
(* Properties of handler resolution (SpecResolve)                          *)
(***************************************************************************)
\* C15 (as claimed): a message that names a registered component with a
\* server function makes the dispatcher call that component's server function
\* and not the route message fallback, whatever the routes define; any other
\* message makes it call the installed route message fallback and no
\* component.
C15_ComponentFirstThenFallback ==
  [][(lastOp'.op = "onmessage" /\ inbox'[lastOp'.arg].frame.kind = "msg") =>
       LET message == inbox'[lastOp'.arg].frame
           calls == {call \in invoked' : call.mid = lastOp'.arg}
           hasServer == /\ message.component \in DOMAIN components
                        /\ components[message.component].server
       IN IF hasServer
            THEN /\ \E call \in calls : /\ call.fn = "component.server"
                                        /\ call.target = message.component
                 /\ \A call \in calls : call.fn = "component.server"
            ELSE /\ \A call \in calls : call.fn # "component.server"
                 /\ routeMessageHandler # "none"
                      => \E call \in calls : call.fn = "routeMessageHandler"]_vars

\* C16 (as claimed): a message that names a registered component which has
\* no server-side handler for the message's event (it has no server
\* function, or its server function defines no handler for that event) is
\* answered on its connection with an event-result with success false.
C16_ComponentWithoutHandlerFails ==
  [][(/\ DispatchStep
      /\ lastOp'.ret.kind # "pending"
      /\ inbox'[lastOp'.arg].frame.kind = "msg"
      /\ inbox'[lastOp'.arg].frame.component \in DOMAIN components
      /\ \/ ~components[inbox'[lastOp'.arg].frame.component].server
         \/ inbox'[lastOp'.arg].frame.event \notin ComponentEvents) =>
       /\ Len(lastSends') = 1
       /\ lastSends'[1].conn = lastOp'.conn
       /\ lastSends'[1].env.type = "event-result"
       /\ lastSends'[1].env.success = FALSE]_vars

\* C25: for every message the dispatcher calls at most one of the component's
\* server function and the route message fallback, and the fallback calls
\* the event handler of at most one route; the calls are made in the step
\* that receives the message and no later step calls anything for it.
C25_AtMostOneHandler ==
  [][/\ \A mid \in 1..Len(inbox') :
          LET calls == {call \in invoked' : call.mid = mid}
          IN /\ Cardinality({call \in calls :
                               call.fn \in {"component.server", "routeMessageHandler"}}) <= 1
             /\ Cardinality({call \in calls : call.fn = "route.handleEvent"}) <= 1
             /\ (\E call \in calls : call.fn = "route.handleEvent")
                  => \E call \in calls : call.fn = "routeMessageHandler"
     /\ invoked \subseteq invoked'
     /\ \A call \in invoked' \ invoked :
          lastOp'.op = "onmessage" /\ call.mid = lastOp'.arg]_vars

\* C25 witness: a component with a server function and two routes all define
\* the event of a message for that component; the pending handler settled,
\* and the component's server function is the only call made for the message.
C25_Witness ==
  /\ lastOp.op = "settle"
  /\ inbox[lastOp.arg].frame = Message("chat", "save", Str(<<"b">>))
  /\ routeMessageHandler # "none"
  /\ Len(routes[routeMessageHandler]) = 2
  /\ \A i \in 1..2 : "save" \in routes[routeMessageHandler][i].events
  /\ {call.fn : call \in {x \in invoked : x.mid = lastOp.arg}} = {"component.server"}

(***************************************************************************)
(* Properties of session resolution (SpecSession)                          *)
(***************************************************************************)
\* C19 (as claimed): for every request, session resolution returns; when the
\* request carries the session cookie with a value that passes format
\* validation the result is that value with isNewSession false, and in
\* every other case it is a newly generated token with isNewSession true.
C19_ResolveOrIssue ==
  (lastOp.op \in {"handleSession", "revisit", "upgradeRequest"}) =>
    LET pairs == lastOp.arg.request.pairs
        carried == {i \in 1..Len(pairs) :
                      /\ pairs[i].name = cookieName
                      /\ isValidSessionId(pairs[i].value)}
    IN /\ ~lastOp.ret.threw
       /\ IF carried # {}
            THEN /\ \E i \in carried : lastOp.ret.sessionId = pairs[i].value
                 /\ ~lastOp.ret.isNewSession
            ELSE /\ lastOp.ret.sessionId \in GeneratedIds
                 /\ lastOp.ret.isNewSession

\* C20: a token that session resolution issued is accepted by
\* isValidSessionId, and when the browser presents it again in the session
\* cookie, session resolution returns that token with isNewSession false.
C20_TokenRoundTrip ==
  [][lastOp'.op = "revisit" =>
       /\ lastOp.ret.isNewSession
       /\ isValidSessionId(lastOp.ret.sessionId)
       /\ ~lastOp'.ret.threw
       /\ lastOp'.ret.sessionId = lastOp.ret.sessionId
       /\ ~lastOp'.ret.isNewSession]_vars

\* C20 witness: a request without cookie was issued a token, and the next
\* request presented it and got it back.
C20_Witness ==
  /\ lastOp.op = "revisit"
  /\ ~lastOp.arg.after.present
  /\ lastOp.arg.request.pairs = <<Cookie(cookieName, lastOp.ret.sessionId)>>
  /\ lastOp.ret.sessionId \in GeneratedIds
  /\ ~lastOp.ret.isNewSession

\* C21 (as claimed): a request whose session cookie has no valid value gets
\* what a request without any cookie gets, from handleSession and on the
\* WebSocket upgrade alike: nothing is thrown and the session id is a newly
\* generated one.
C21_InvalidCookieIsNoCookie ==
  LET pairs == lastOp.arg.request.pairs
  IN (/\ lastOp.op \in {"handleSession", "upgradeRequest"}
      /\ \E i \in 1..Len(pairs) : pairs[i].name = cookieName
      /\ \A i \in 1..Len(pairs) :
           /\ pairs[i].name = cookieName
           /\ ~isValidSessionId(pairs[i].value)) =>
       /\ ~lastOp.ret.threw
       /\ \E fresh \in GeneratedIds :
            lastOp.ret = IF lastOp.op = "handleSession"
                           THEN handleSession(NoCookieRequest, fresh)
                           ELSE upgradeSessionId(NoCookieRequest, fresh)

C24_SendToOne ==
  [][lastOp'.op = "sendToConnection" =>
       LET c == lastOp'.conn
           msg == lastOp'.arg
       IN /\ IF c \notin Registered
               THEN /\ lastOp'.ret = FALSE
                    /\ lastSends' = <<>>
                    /\ outbox' = outbox
               ELSE /\ lastOp'.ret = TRUE
                    /\ lastSends' = <<[conn |-> c, env |-> msg]>>
                    /\ \A d \in ConnIds :
                         outbox'[d] = IF d = c /\ sockets[c].readyState = "open"
                                        THEN Append(outbox[c], msg)
                                        ELSE outbox[d]
          /\ UNCHANGED <<connections, sessionConnections>>]_vars

\* C24 witness: two open connections are registered; a message was sent to
\* one of them and reached only it.
C24_Witness ==
  /\ lastOp.op = "sendToConnection" /\ lastOp.ret = TRUE
  /\ Cardinality(Registered) = 2
  /\ \A c \in Registered : sockets[c].readyState = "open"
  /\ Len(outbox[lastOp.conn]) = 2
  /\ \A d \in Registered \ {lastOp.conn} : Len(outbox[d]) = 1


(***************************************************************************)
(* Properties of the transport error event (Spec)                          *)
(***************************************************************************)
\* C29: an error event of a connection's socket adds one to the error
\* counter and changes no other counter, neither map, no socket and no
\* outbox, and makes no send: a registered connection stays registered, an
\* unregistered one is not registered; and the only step that takes a
\* connection out of the primary map is the close event of its socket.
C29_ErrorOnlyCounts ==
  [][/\ lastOp'.op = "onerror"
          => /\ stats' = [stats EXCEPT !.errors = @ + 1]
             /\ UNCHANGED <<connections, sessionConnections, sockets, outbox>>
             /\ lastSends' = <<>>
     /\ \A c \in Registered \ Registered' :
          lastOp'.op = "onclose" /\ lastOp'.conn = c]_vars

\* C29 witness: the error event came on a registered connection with an open
\* socket, which is still registered and open after it.
C29_Witness ==
  /\ lastOp.op = "onerror"
  /\ lastOp.conn \in Registered
  /\ sockets[lastOp.conn].readyState = "open"
  /\ stats.errors = 1

(***************************************************************************)
(* Properties of the dispatcher across connections (SpecDispatch)          *)
(***************************************************************************)
\* C28: while a handler called for a message of one connection is suspended,
\* a message received on another connection is dispatched in the step that
\* receives it: its handler is called and, unless that one suspends too, its
\* event-result is sent on its own connection in the same step (written
\* when the socket is OPEN), and the suspended handler stays suspended.
C28_NoHeadOfLineBlocking ==
  [][(/\ lastOp'.op = "onmessage"
      /\ lastOp'.ret.kind \in {"return", "throw", "unhandled"}
      /\ \E p \in pending : p.conn # lastOp'.conn)
       => LET c == lastOp'.conn
          IN /\ Len(lastSends') = 1
             /\ lastSends'[1].conn = c
             /\ lastSends'[1].env.type = "event-result"
             /\ lastSends'[1].env.mid = lastOp'.arg
             /\ sockets[c].readyState = "open"
                  => outbox'[c] = Append(outbox[c], lastSends'[1].env)
             /\ lastOp'.ret.kind = "return"
                  => \E call \in invoked' \ invoked : call.mid = lastOp'.arg
             /\ pending' = pending]_vars

\* C28 witness: the handler of the first message, received on one
\* connection, is still suspended, and the second message, received on the
\* other connection, has its successful event-result written already.
C28_Witness ==
  /\ lastOp.op = "onmessage"
  /\ lastOp.ret.kind = "return"
  /\ \E p \in pending : p.conn # lastOp.conn /\ p.mid < lastOp.arg
  /\ sockets[lastOp.conn].readyState = "open"
  /\ LET out == outbox[lastOp.conn]
     IN /\ out[Len(out)].type = "event-result"
        /\ out[Len(out)].mid = lastOp.arg
        /\ out[Len(out)].success

\* C30: when the pending handler of a message settles after its connection
\* was closed and unregistered, the one send the dispatcher makes writes
\* nothing to any socket, no counter changes (no message sent, no error),
\* the registry is unchanged and the connection is not registered after it.
C30_LateCompletionIsSilent ==
  [][(/\ lastOp'.op = "settle"
      /\ sockets[lastOp'.conn].readyState = "closed"
      /\ lastOp'.conn \notin Registered)
       => /\ Len(lastSends') = 1
          /\ lastSends'[1].conn = lastOp'.conn
          /\ UNCHANGED <<outbox, stats, sockets, connections, sessionConnections>>
          /\ lastOp'.conn \notin Registered'
          /\ lastOp'.conn \notin Indexed']_vars

\* C30 witness: a connection was opened, sent a message whose handler
\* suspended, and was closed; the handler then settled, and the welcome
\* envelope is still all that was ever written to the connection.
C30_Witness ==
  /\ lastOp.op = "settle"
  /\ sockets[lastOp.conn].readyState = "closed"
  /\ lastOp.conn \notin Registered
  /\ inbox[lastOp.arg].conn = lastOp.conn
  /\ Len(outbox[lastOp.conn]) = 1
  /\ outbox[lastOp.conn][1].type = "connection-established"

(***************************************************************************)
(* Properties of the registry's readers (SpecConsumers)                    *)
(***************************************************************************)
ConsumerOps == {"onmessage", "settle", "broadcast", "broadcastToSession",
                "sendToConnection"}

\* C27: a step of the dispatcher (a frame received, whatever its kind and
\* outcome, or a pending handler settling) and a step of sendToConnection,
\* broadcastToSession or broadcast leave the primary map and the session
\* index as they were.
C27_ConsumersReadOnly ==
  [][lastOp'.op \in ConsumerOps
       => UNCHANGED <<connections, sessionConnections>>]_vars

\* C27 witness: with two connections registered, one of them on a socket
\* that is closing, a malformed frame has been received and a broadcast was
\* made after it.
C27_Witness ==
  /\ lastOp.op = "broadcast"
  /\ Cardinality(DOMAIN connections) = 2
  /\ \E c \in DOMAIN connections : sockets[c].readyState = "closing"
  /\ \E i \in 1..Len(inbox) : inbox[i].frame.kind = "invalid"

ReplyTypes == {"event-result", "error"}

\* C31: a frame received on an open connection gets exactly one reply
\* envelope passed to send on that connection: in the step that receives it
\* when the frame is unreadable or its handling completes at once, and in
\* the step in which its suspended handler settles otherwise; that handler
\* is then no longer pending, and no other step passes a reply to send.
C31_ExactlyOneReply ==
  [][/\ (lastOp'.op = "onmessage" /\ lastOp'.ret.kind # "pending")
          => /\ Len(lastSends') = 1
             /\ lastSends'[1].conn = lastOp'.conn
             /\ lastSends'[1].env.type \in ReplyTypes
             /\ lastSends'[1].env.mid = lastOp'.arg
             /\ \A p \in pending' : p.mid # lastOp'.arg
     /\ (lastOp'.op = "onmessage" /\ lastOp'.ret.kind = "pending")
          => /\ lastSends' = <<>>
             /\ Cardinality({p \in pending' : p.mid = lastOp'.arg}) = 1
             /\ \A p \in pending' : p.mid = lastOp'.arg => p.conn = lastOp'.conn
     /\ lastOp'.op = "settle"
          => /\ Len(lastSends') = 1
             /\ lastSends'[1].conn = lastOp'.conn
             /\ lastSends'[1].env.type \in ReplyTypes
             /\ lastSends'[1].env.mid = lastOp'.arg
             /\ \E p \in pending : p.mid = lastOp'.arg /\ p.conn = lastOp'.conn
             /\ \A p \in pending' : p.mid # lastOp'.arg
     /\ lastOp'.op \notin {"onmessage", "settle"}
          => /\ pending' = pending
             /\ \A i \in 1..Len(lastSends') :
                  lastSends'[i].env.type \notin ReplyTypes]_vars

\* C31 witness: one open connection sent text that is not JSON and a message
\* whose handler suspended and later threw; after the welcome it was written
\* exactly one reply for each of the two frames.
C31_Witness ==
  /\ lastOp.op = "settle"
  /\ lastOp.ret.kind = "throw"
  /\ Len(inbox) = 2
  /\ inbox[1].conn = lastOp.conn /\ inbox[2].conn = lastOp.conn
  /\ \E i \in 1..2 : inbox[i].frame.kind = "invalid"
  /\ sockets[lastOp.conn].readyState = "open"
  /\ LET out == outbox[lastOp.conn]
     IN /\ Len(out) = 3
        /\ {out[2].mid, out[3].mid} = {1, 2}
        /\ {out[2].type, out[3].type} = ReplyTypes

(***************************************************************************)
(* Properties of shutdown-time closing (Spec)                              *)
(***************************************************************************)
\* C32: closeAllConnections returns the number of connections registered
\* when it is called, starts the closing of each of their sockets and leaves
\* the primary map, the session index and the statistics as they were; the
\* close event of a connection takes that connection, and no other, out of
\* both; and whenever no socket is left whose close event is still to come,
\* the primary map and the session index are empty.
C32_ShutdownDrains ==
  [][/\ lastOp'.op = "closeAllConnections"
          => /\ lastOp'.ret = Cardinality(Registered)
             /\ UNCHANGED <<connections, sessionConnections, stats>>
             /\ \A c \in Registered : sockets'[c].readyState = "closing"
     /\ lastOp'.op = "onclose"
          => /\ Registered' = Registered \ {lastOp'.conn}
             /\ Indexed' = Indexed \ {lastOp'.conn}
     /\ (\A c \in ConnIds : sockets'[c].readyState \notin {"open", "closing"})
          => connections' = EmptyMap /\ sessionConnections' = EmptyMap]_vars

\* C32 witness: closeAllConnections was called with two connections
\* registered, one of them open and one already closing by closeConnection;
\* it returned 2 and both are still registered, their sockets closing.
C32_Witness ==
  /\ lastOp.op = "closeAllConnections"
  /\ lastOp.ret = 2
  /\ Cardinality(Registered) = 2
  /\ Cardinality(Indexed) = 2
  /\ \A c \in Registered : sockets[c].readyState = "closing"

(***************************************************************************)
(* Properties of the session of a connection (SpecBroadcast)               *)
(***************************************************************************)
\* C33: the session id given to a connection at its handshake never changes,
\* and after every step each registered connection carries that session id
\* and is in the session index under that session id and under no other.
C33_SessionIsFixed ==
  [][\A c \in ConnIds :
       /\ sockets[c].readyState # "absent"
            => sockets'[c].sessionId = sockets[c].sessionId
       /\ c \in Registered'
            => /\ connections'[c].id = c
               /\ connections'[c].sessionId = sockets'[c].sessionId
               /\ \A s \in DOMAIN sessionConnections' :
                    c \in sessionConnections'[s] <=> s = connections'[c].sessionId
               /\ connections'[c].sessionId \in DOMAIN sessionConnections']_vars

\* C33 witness: two connections of two sessions are registered, the second
\* one just opened, each indexed under its own session only.
C33_Witness ==
  /\ lastOp.op = "onopen"
  /\ Cardinality(Registered) = 2
  /\ Cardinality(DOMAIN sessionConnections) = 2
  /\ \A c \in Registered : sessionConnections[connections[c].sessionId] = {c}

(***************************************************************************)
(* Properties of the statistics of the registry (Spec)                     *)
(***************************************************************************)
Created == {c \in ConnIds : sockets[c].readyState # "absent"}
EverRegistered == {c \in ConnIds : EverOpened(c)}

\* C34 (as claimed): after every register and unregister activeConnections
\* is the size of the primary map, totalConnections has not decreased and is
\* at least activeConnections, and totalConnections is the number of
\* connections ever created by a handshake.
C34_TotalCountsCreated ==
  [][lastOp'.op \in {"onopen", "onclose"}
       => /\ stats'.activeConnections = Cardinality(Registered')
          /\ stats'.totalConnections >= stats.totalConnections
          /\ stats'.totalConnections >= stats'.activeConnections
          /\ stats'.totalConnections = Cardinality(Created')]_vars

\* C34 (amended): after every step activeConnections is the size of the
\* primary map, totalConnections has not decreased and is at least
\* activeConnections, and totalConnections is the number of connections ever
\* registered, those whose socket opened: a connection whose socket is still
\* connecting, or closed before it opened, is not counted.
C34_TotalCountsRegistered ==
  [][/\ stats'.activeConnections = Cardinality(Registered')
     /\ stats'.totalConnections >= stats.totalConnections
     /\ stats'.totalConnections >= stats'.activeConnections
     /\ stats'.totalConnections = Cardinality(EverRegistered')
     /\ stats'.totalConnections <= Cardinality(Created')]_vars

\* C34 witness: of two handshakes one opened, was registered and was closed,
\* and the other one just closed without ever opening: one connection in
\* total, none active, two created.
C34_Witness ==
  /\ lastOp.op = "onclose"
  /\ ~EverOpened(lastOp.conn)
  /\ Cardinality(Created) = 2
  /\ \A c \in Created : sockets[c].readyState = "closed"
  /\ stats.totalConnections = 1
  /\ stats.activeConnections = 0

(***************************************************************************)
(* Properties of the filters of broadcast (SpecBroadcast)                  *)
(***************************************************************************)
\* A connection passes the filters that are given; one that is not given
\* admits every connection.
PassesGiven(connection, options) ==
  /\ options.includeSessionId.defined
       => connection.sessionId = options.includeSessionId.value
  /\ options.excludeSessionId.defined
       => connection.sessionId # options.excludeSessionId.value
  /\ options.includeConnectionIds.defined
       => connection.id \in options.includeConnectionIds.ids
  /\ options.excludeConnectionIds.defined
       => connection.id \notin options.excludeConnectionIds.ids

\* C35 (as claimed): broadcast hands the message to connection.send of
\* exactly the registered connections that pass every filter given in the
\* options, once each, and returns their number.
C35_FiltersConjoin ==
  [][lastOp'.op = "broadcast" =>
       LET options == lastOp'.arg.options
           passed == {c \in Registered : PassesGiven(connections[c], options)}
       IN /\ {lastSends'[i].conn : i \in 1..Len(lastSends')} = passed
          /\ Len(lastSends') = Cardinality(passed)
          /\ \A i \in 1..Len(lastSends') : lastSends'[i].env = lastOp'.arg.message
          /\ lastOp'.ret = Cardinality(passed)]_vars

(***************************************************************************)
(* Properties of the route message fallback (SpecFallback)                 *)
(***************************************************************************)
\* The routes of the installed framework that define a handler for the event:
\* a handler of the framework, of the application or of the route itself.
Defining(eventName) ==
  IF routeMessageHandler = "none" THEN {}
  ELSE {i \in 1..Len(routes[routeMessageHandler]) :
          eventName \in buildEvents(routes[routeMessageHandler][i])}

\* C36 (as claimed): a message that goes to the route message fallback makes
\* it call the handler of exactly one route, the earliest registered among
\* the routes that define the event; when no route defines the event the
\* fallback calls no handler and fails with an error.
C36_EarliestRouteOrError ==
  [][(/\ lastOp'.op = "onmessage"
      /\ inbox'[lastOp'.arg].frame.kind = "msg"
      /\ routeMessageHandler # "none")
       => LET mid == lastOp'.arg
              defining == Defining(inbox'[mid].frame.event)
              calls == {call \in invoked' : call.mid = mid /\ call.fn = "route.handleEvent"}
          IN IF defining # {}
               THEN /\ Cardinality(calls) = 1
                    /\ \A call \in calls :
                         /\ call.route \in defining
                         /\ \A i \in defining : call.route <= i
               ELSE /\ calls = {}
                    /\ lastOp'.ret.kind = "throw"]_vars

(***************************************************************************)
(* Properties of the route message slot (SpecInstances)                    *)
(***************************************************************************)
\* C37: constructing a framework instance puts that instance's fallback into
\* the one slot of the manager, whatever the slot held, and no other step
\* changes the slot; a route-scoped message on any connection is resolved
\* against the routes of the instance in the slot only: the fallback called
\* is that instance's, the handler called is of one of its routes, and when
\* none of its routes has the event the message fails, whatever the routes
\* of an instance constructed earlier define.
C37_LastInstanceOwnsFallback ==
  [][/\ lastOp'.op = "new" => routeMessageHandler' = lastOp'.arg
     /\ lastOp'.op # "new" => routeMessageHandler' = routeMessageHandler
     /\ (lastOp'.op = "onmessage" /\ routeMessageHandler # "none")
          => LET mid == lastOp'.arg
                 event == inbox'[mid].frame.event
                 own == routes[routeMessageHandler]
                 calls == {call \in invoked' : call.mid = mid}
             IN /\ \A call \in calls :
                     /\ call.fn \in {"routeMessageHandler", "route.handleEvent"}
                     /\ call.fn = "routeMessageHandler"
                          => call.target = routeMessageHandler
                     /\ call.fn = "route.handleEvent"
                          => /\ call.route \in 1..Len(own)
                             /\ hasEvent(own[call.route], event)
                /\ \E call \in calls : call.fn = "routeMessageHandler"
                /\ (\A i \in 1..Len(own) : ~hasEvent(own[i], event))
                     => /\ lastOp'.ret.kind = "throw"
                        /\ \A call \in calls : call.fn # "route.handleEvent"]_vars

\* C37 witness: instance A has a route that defines "save", instance B,
\* constructed after A, has none; a "save" message on an open connection
\* was given to B's fallback and failed.
C37_Witness ==
  /\ lastOp.op = "onmessage"
  /\ inbox[lastOp.arg].frame.event = "save"
  /\ lastOp.ret.kind = "throw"
  /\ routeMessageHandler = "B"
  /\ DOMAIN routes = Instances
  /\ \E i \in 1..Len(routes["A"]) : "save" \in routes["A"][i].events
  /\ routes["B"] = <<>>

(***************************************************************************)
(* Properties of graceful shutdown (SpecShutdown)                          *)
(***************************************************************************)
\* C38 (as claimed): however many signals are delivered, the shutdown
\* handlers start stop() at most once and closeAllConnections is called by
\* it at most once; and stop() on a framework without a running server
\* changes nothing.
C38_ShutdownOnce ==
  [][/\ lifecycle'.stopsBySignal <= 1
     /\ lifecycle'.closeAllsBySignal <= 1
     /\ (lastOp'.op = "stop" /\ ~lifecycle.server)
          => UNCHANGED <<connections, sessionConnections, stats, sockets, outbox,
                         lifecycle>>]_vars

(***************************************************************************)
(* Properties of the rate limiter (SpecRateLimit)                          *)
(***************************************************************************)
\* C39: in one window of one key checkRateLimit returns true at most
\* maxRequests times; a call for a key that was refused in its window, made
\* no later than the window's reset time, returns false and leaves the map
\* as it was; the first call after the reset time of a window with a refusal
\* returns true and stores a new entry with count 1.
C39_RateLimitWindow ==
  [][(lastOp.op \in SecurityOps /\ lastOp'.op = "security.checkRateLimit")
       => LET key == lastOp'.arg
              before == lastOp.ret
              after == lastOp'.ret
              w == before.windows[key]
          IN /\ after.windows[key].grants <= before.config.maxRequests
             /\ (w.denied /\ before.now <= w.end)
                  => /\ after.returned = FALSE
                     /\ after.rateLimitMap = before.rateLimitMap
             /\ (w.denied /\ before.now > w.end)
                  => /\ after.returned = TRUE
                     /\ after.rateLimitMap[key] =
                          Entry(1, before.now + before.config.windowMs)]_vars

\* C39 witness: with maxRequests = 2 a key was granted twice and refused in
\* one window, and after that window's reset time its call was granted in a
\* new window whose entry has count 1.
C39_Witness ==
  /\ lastOp.op = "security.checkRateLimit"
  /\ lastOp.ret.config.maxRequests = 2
  /\ lastOp.ret.returned = TRUE
  /\ lastOp.ret.windows[lastOp.arg].after
  /\ lastOp.ret.windows[lastOp.arg].grants = 1
  /\ lastOp.ret.rateLimitMap[lastOp.arg].count = 1

====
